---- MODULE Spec2Model ----
(***************************************************************************)
(* A model of the equity research agent.                                   *)
(*                                                                         *)
(* The rate limiter (src/unnamed/part_006): class RateLimiter with         *)
(* throttle, execute, executeBatch, getStats and resetStats.  The screener *)
(* tools (src/unnamed/part_002): screenStocksTool and compareCompaniesTool.*)
(* The DCF calculator (src/unnamed/part_005): calculateDCF with            *)
(* calculateWACC, estimateFCFGrowthRate and calculateSensitivity.  The     *)
(* rebalance engine of the monthly review, which the repository plans in   *)
(* src/PLAN.md and does not implement yet, after its specification.        *)
(*                                                                         *)
(* JavaScript runs one task at a time: a step of the model is one run of   *)
(* synchronous code, from the point where a caller is resumed (a timer     *)
(* fires, a fetch settles, the function is called) to its next suspension  *)
(* on a timer or on the fetch.  Date.now() is the variable now; it does    *)
(* not change inside a step and advances in the action Tick.  A sleep of d *)
(* ends at least d after it began; a sleep may run late and a fetch may    *)
(* take time, both within the bounds below.                                *)
(***************************************************************************)
EXTENDS Integers, Sequences, FiniteSets, TLC

\* ------------------------------------------------------------------ bounds
MaxItems == 3        \* longest item list handed to executeBatch
MaxAttempts == 4     \* most fetch attempts one call can make: its items times
                     \* maxRetries + 1
MaxLatency == 1      \* a fetch settles at most this long after it was started
MaxOversleep == 1    \* a timer fires at most this long after it is due
StartTime == 6       \* Date.now() when the first call is made
MaxResets == 1       \* calls of resetStats in one behaviour
ScreenBatchSize == 2 \* tickers of one batch of screenStocksTool: the 20 of the
                     \* code, for a universe of 3 tickers instead of 250
MaxHoldings == 3     \* holdings of the portfolio under review
MaxCandidates == 7   \* screened stocks that qualify as buys

Callers == {1, 2}
Tickers == {"A", "B"}

Min(a, b) == IF a < b THEN a ELSE b
Max(a, b) == IF a > b THEN a ELSE b

\* ------------------------------------------------------------- the state
VARIABLES
  config,           \* RateLimiter.config
  now,              \* Date.now()
  lastRequestTime,  \* RateLimiter.lastRequestTime
  requestCount,     \* RateLimiter.requestCount
  errorCount,       \* RateLimiter.errorCount
  call,             \* per caller: the locals of its executeBatch / execute call
  obs,              \* history: what an observer of the limiter has seen
  env,              \* the scenario: what the surroundings may still do
  tool,             \* the call of a screener tool: its locals and its requests
  dcf,              \* the call of calculateDCF: its inputs and what it returned
  rebalance,        \* the rebalance cycle of the monthly review
  workflow,         \* the run of the stock screener workflow
  db,               \* the module of the database client: dbClient and the calls
                    \* of getDbClient
  store,            \* the portfolio store: what is written for the portfolio
  cycle             \* per review cycle: its state and what it loaded and planned

vars == <<config, now, lastRequestTime, requestCount, errorCount, call, obs, env,
          tool, dcf, rebalance, workflow, db, store, cycle>>
\* The components a specification does not run stay as Init leaves them.
limiterVars == <<config, now, lastRequestTime, requestCount, errorCount, call, obs, env>>
NotCalled == [pc |-> "uncalled"]
OthersNotCalled == workflow = NotCalled /\ db = NotCalled /\ store = NotCalled /\ cycle = NotCalled

\* ------------------------------------------------- values and conversions
\* What a fetch settles with.  ok: fn resolved, and msg is the item fetched;
\* otherwise fn rejected with msg, an Error instance (inst) or some other
\* thrown value.  at is the index of the attempt that produced it.
Resolved(item, a) == [ok |-> TRUE, inst |-> FALSE, msg |-> item, at |-> a]
Rejected(inst, msg, a) == [ok |-> FALSE, inst |-> inst, msg |-> msg, at |-> a]

\* The keywords isRateLimitError looks for in the lower-cased message.
RateLimitKeywords == {"rate limit", "too many requests", "429", "throttl"}
\* What fn rejects with: an Error of the provider's rate limit, and a thrown
\* value that is no Error.
Rejections == { [inst |-> TRUE, msg |-> "429"], [inst |-> FALSE, msg |-> "ENOTFOUND"] }

\* error instanceof Error ? error : new Error(String(error))
ToError(e) == IF e.inst THEN e ELSE [e EXCEPT !.inst = TRUE]

isRateLimitError(e) == e.inst /\ e.msg \in RateLimitKeywords

\* A backoff that grows by its base, not by doubling.
getBackoffDelayLinear(attempt) == config.baseBackoffMs * (attempt + 1)

getBackoffDelay(attempt) == config.baseBackoffMs * (2 ^ attempt)

\* The Map results: a sequence of entries in insertion order; set replaces the
\* value of a key it holds and appends a key it does not.
MapHas(m, k) == \E i \in 1..Len(m) : m[i].key = k
MapGet(m, k) == LET i == CHOOSE i \in 1..Len(m) : m[i].key = k IN m[i].val
MapSet(m, k, v) ==
  IF MapHas(m, k)
  THEN [i \in 1..Len(m) |-> IF m[i].key = k THEN [key |-> k, val |-> v] ELSE m[i]]
  ELSE Append(m, [key |-> k, val |-> v])

\* for (let i = 0; i < items.length; i += batchSize) batches.push(items.slice(i, i + batchSize))
RECURSIVE BatchesFrom(_, _, _)
BatchesFrom(items, size, i) ==
  IF i >= Len(items) THEN <<>>
  ELSE <<SubSeq(items, i + 1, Min(i + size, Len(items)))>> \o BatchesFrom(items, size, i + size)

\* Batches whose slices end one item late: items.slice(i, i + batchSize + 1)
RECURSIVE BatchesLongSlice(_, _)
BatchesLongSlice(items, size) ==
  IF Len(items) = 0 THEN <<>>
  ELSE <<SubSeq(items, 1, Min(size + 1, Len(items)))>>
         \o BatchesLongSlice(SubSeq(items, Min(size, Len(items)) + 1, Len(items)), size)

Batches(items, size) == BatchesFrom(items, size, 0)

\* --------------------------------------------------------- configurations
DEFAULT_CONFIG ==
  [minDelayMs |-> 500, maxRetries |-> 3, baseBackoffMs |-> 1000,
   batchSize |-> 10, interBatchDelayMs |-> 2000]

\* new RateLimiter(config): { ...DEFAULT_CONFIG, ...config }.  The small
\* configurations keep the shape of the default one (the inter-batch delay
\* above the minimum delay, backoff doubling from its base) in model ticks.
Configs ==
  { [DEFAULT_CONFIG EXCEPT !.minDelayMs = 2, !.maxRetries = mr, !.baseBackoffMs = 1,
                           !.batchSize = bs, !.interBatchDelayMs = 3]
      : mr \in 0..(MaxAttempts - 1), bs \in {1, 2} }

\* The options of executeBatch: the default ({}), and callbacks with
\* continueOnError switched off.
DefaultOptions == [onProgress |-> FALSE, onError |-> FALSE, continueOnError |-> TRUE]
OptionSets ==
  { DefaultOptions,
    [onProgress |-> TRUE, onError |-> TRUE, continueOnError |-> FALSE] }

\* The item lists, up to the names of the tickers: the first item is "A".
ItemLists == { items \in UNION { [1..n -> Tickers] : n \in 0..MaxItems } :
                 Len(items) > 0 => items[1] = "A" }

NoValue == [ok |-> FALSE, inst |-> FALSE, msg |-> "none", at |-> -1]

\* No estimateTime call was made.
NoEstimate == [estimatedSeconds |-> 0, estimatedMinutes |-> 0]

\* A caller that has not called executeBatch(items, fn, options) yet.
NewCall(items, options) ==
  [pc |-> "idle", items |-> items, options |-> options,
   batches |-> <<>>, batchIndex |-> 0, itemIdx |-> 0, completed |-> 0,
   results |-> <<>>, attempt |-> 0, lastError |-> NoValue,
   sleepMs |-> 0, wake |-> 0, startedAt |-> 0, thrown |-> NoValue,
   \* history
   fnCalls |-> 0, lastRejected |-> NoValue, retryBranch |-> "none", chunkEnd |-> -1, chunkGap |-> -1,
   outcomes |-> <<>>, onErrorCalls |-> 0, onProgressCalls |-> 0,
   interBatchSleeps |-> 0,
   \* processWithProgress / executeBatchFiltered
   estimate |-> NoEstimate, estimatedFor |-> -1, successfulResults |-> <<>>]

NewObs == [lastStart |-> -1, lastGap |-> -1, started |-> 0, failed |-> 0]

\* ------------------------------------------------ the code, step by step
\* A machine m is what one run of synchronous code reads and writes: the
\* caller's locals r and the limiter's fields.
Machine(c) ==
  [r |-> call[c], lastRequestTime |-> lastRequestTime,
   requestCount |-> requestCount, errorCount |-> errorCount, obs |-> obs]

\* A sleep whose promise is never resolved.
sleepForever(m, pc, ms) == [m EXCEPT !.r.pc = "hung", !.r.sleepMs = ms]

\* sleep(ms): the caller is suspended until a timer set ms from now fires.
sleep(m, pc, ms) ==
  [m EXCEPT !.r.pc = pc, !.r.sleepMs = ms, !.r.wake = now + ms]

\* The timer has fired and the caller runs again.
Resumed(m) == [m EXCEPT !.r.sleepMs = 0, !.r.wake = 0]

\* The fetch has settled.
Settled(m) == [m EXCEPT !.r.startedAt = 0]

\* The end of throttle and the lines of execute after it:
\* this.lastRequestTime = Date.now(); this.requestCount++; fn()
StartFetch(m) ==
  [m EXCEPT !.lastRequestTime = now,
            !.requestCount = @ + 1,
            !.r.pc = "fetching",
            !.r.startedAt = now,
            !.r.fnCalls = @ + 1,
            !.r.chunkGap = IF m.r.itemIdx = 1 /\ m.r.attempt = 0 /\ m.r.chunkEnd >= 0
                           THEN Min(now - m.r.chunkEnd, config.interBatchDelayMs) ELSE -1,
            !.obs = [m.obs EXCEPT !.lastGap = IF m.obs.lastStart < 0 THEN -1
                                              ELSE Min(now - m.obs.lastStart, config.minDelayMs),
                                  !.lastStart = now,
                                  !.started = @ + 1]]

\* A throttle that never waits.
throttleNoWait(m) == StartFetch(m)

\* throttle(), up to its await
throttle(m) ==
  LET timeSinceLastRequest == now - m.lastRequestTime IN
  IF timeSinceLastRequest < config.minDelayMs
  THEN sleep(m, "throttleSleep", config.minDelayMs - timeSinceLastRequest)
  ELSE StartFetch(m)

\* execute(() => fn(item)): let attempt = 0, the first pass of the loop
execute(m) ==
  throttle([m EXCEPT !.r.attempt = 0, !.r.lastError = NoValue, !.r.fnCalls = 0,
                     !.r.lastRejected = NoValue, !.r.retryBranch = "none"])

\* The current item of executeBatch's loops
CurrentBatch(r) == r.batches[r.batchIndex + 1]
CurrentItem(r) == CurrentBatch(r)[r.itemIdx]

\* A loop that goes on to the next batch without the inter-batch sleep.
ItemDoneNoPause(m) ==
  LET m1 == [m EXCEPT !.r.completed = @ + 1,
                      !.r.onProgressCalls = IF m.r.options.onProgress THEN @ + 1 ELSE @]
  IN IF m1.r.itemIdx < Len(CurrentBatch(m1.r))
     THEN execute([m1 EXCEPT !.r.itemIdx = @ + 1])
     ELSE IF m1.r.batchIndex < Len(m1.r.batches) - 1
          THEN execute([m1 EXCEPT !.r.chunkEnd = now, !.r.batchIndex = @ + 1, !.r.itemIdx = 1])
          ELSE [m1 EXCEPT !.r.pc = "done", !.r.batchIndex = @ + 1]

\* After an item of the batch: completed++, onProgress, then the next item of
\* the batch, the inter-batch sleep, or the return of the results.
ItemDone(m) ==
  LET m1 == [m EXCEPT !.r.completed = @ + 1,
                      !.r.onProgressCalls = IF m.r.options.onProgress THEN @ + 1 ELSE @]
  IN IF m1.r.itemIdx < Len(CurrentBatch(m1.r))
     THEN execute([m1 EXCEPT !.r.itemIdx = @ + 1])
     ELSE IF m1.r.batchIndex < Len(m1.r.batches) - 1
          THEN sleep([m1 EXCEPT !.r.chunkEnd = now, !.r.interBatchSleeps = @ + 1],
                     "batchSleep", config.interBatchDelayMs)
          ELSE [m1 EXCEPT !.r.pc = "done", !.r.batchIndex = @ + 1]

\* The try of executeBatch: results.set(item, result)
ItemSucceeded(m, result) ==
  ItemDone([m EXCEPT !.r.results = MapSet(@, CurrentItem(m.r), result),
                     !.r.outcomes = Append(@, [item |-> CurrentItem(m.r),
                                               failures |-> m.r.fnCalls - 1,
                                               last |-> result])])

\* A catch that rethrows whatever continueOnError says.
ItemFailedRethrows(m, error) ==
  LET err == ToError(error)
  IN [m EXCEPT !.r.results = MapSet(@, CurrentItem(m.r), err),
               !.r.outcomes = Append(@, [item |-> CurrentItem(m.r),
                                         failures |-> m.r.fnCalls,
                                         last |-> m.r.lastRejected]),
               !.r.pc = "threw", !.r.thrown = err]

\* A catch that goes on with the next item whatever continueOnError says.
ItemFailedGoesOn(m, error) ==
  LET err == ToError(error)
  IN ItemDone([m EXCEPT !.r.results = MapSet(@, CurrentItem(m.r), err),
                        !.r.outcomes = Append(@, [item |-> CurrentItem(m.r),
                                                  failures |-> m.r.fnCalls,
                                                  last |-> m.r.lastRejected]),
                        !.r.onErrorCalls = IF m.r.options.onError THEN @ + 1 ELSE @])

\* The catch of executeBatch
ItemFailed(m, error) ==
  LET err == ToError(error)
      m1 == [m EXCEPT !.r.results = MapSet(@, CurrentItem(m.r), err),
                      !.r.outcomes = Append(@, [item |-> CurrentItem(m.r),
                                                failures |-> m.r.fnCalls,
                                                last |-> m.r.lastRejected]),
                      !.r.onErrorCalls = IF m.r.options.onError THEN @ + 1 ELSE @]
  IN IF ~m.r.options.continueOnError
     THEN [m1 EXCEPT !.r.pc = "threw", !.r.thrown = err]
     ELSE ItemDone(m1)

\* A catch that keeps the error of the first failed attempt.
AttemptFailedKeepsFirst(m, error) ==
  LET m1 == [m EXCEPT !.errorCount = @ + 1,
                      !.r.lastError = IF @ = NoValue THEN ToError(error) ELSE @,
                      !.r.lastRejected = error,
                      !.obs.failed = @ + 1]
  IN IF m.r.attempt < config.maxRetries
     THEN sleep([m1 EXCEPT !.r.retryBranch = "other"], "backoffSleep",
                getBackoffDelay(m.r.attempt))
     ELSE ItemFailed([m1 EXCEPT !.r.attempt = @ + 1], m1.r.lastError)

\* The catch of execute, for the error the fetch rejected with
AttemptFailed(m, error) ==
  LET m1 == [m EXCEPT !.errorCount = @ + 1,
                      !.r.lastError = ToError(error),
                      !.r.lastRejected = error,
                      !.obs.failed = @ + 1]
  IN IF isRateLimitError(error) /\ m.r.attempt < config.maxRetries
     THEN sleep([m1 EXCEPT !.r.retryBranch = "rateLimit"], "backoffSleep",
                getBackoffDelay(m.r.attempt))
     ELSE IF m.r.attempt < config.maxRetries
          THEN sleep([m1 EXCEPT !.r.retryBranch = "other"], "backoffSleep",
                     getBackoffDelay(m.r.attempt))
          ELSE \* attempt++ ends the loop: throw lastError
               ItemFailed([m1 EXCEPT !.r.attempt = @ + 1], m1.r.lastError)

\* executeBatch(items, fn, options), up to its first await
executeBatch(m) ==
  LET m1 == [m EXCEPT !.r.batches = Batches(m.r.items, config.batchSize),
                      !.r.completed = 0, !.r.batchIndex = 0, !.r.results = <<>>]
  IN IF Len(m1.r.batches) = 0
     THEN [m1 EXCEPT !.r.pc = "done"]
     ELSE execute([m1 EXCEPT !.r.itemIdx = 1])

\* ---------------------------------------------------------------- actions
Commit(c, m) ==
  /\ call' = [call EXCEPT ![c] = m.r]
  /\ lastRequestTime' = m.lastRequestTime
  /\ requestCount' = m.requestCount
  /\ errorCount' = m.errorCount
  /\ obs' = m.obs
  /\ UNCHANGED <<tool, dcf, rebalance, workflow, db, store, cycle>>

Sleeping(c) == call[c].pc \in {"throttleSleep", "backoffSleep", "batchSleep"}
Waiting(c) == Sleeping(c) \/ call[c].pc = "fetching"
\* The latest time at which a waiting caller is resumed
Due(c) == IF Sleeping(c) THEN call[c].wake + MaxOversleep * env.tickMs
          ELSE call[c].startedAt + MaxLatency * env.tickMs

ExecuteBatchCall(c) ==
  /\ c \in env.active
  /\ call[c].pc = "idle"
  /\ Commit(c, executeBatch(Machine(c)))
  /\ UNCHANGED <<config, now, env>>

\* The timer of throttle's sleep fires
ThrottleWake(c) ==
  /\ call[c].pc = "throttleSleep"
  /\ now >= call[c].wake
  /\ Commit(c, StartFetch(Resumed(Machine(c))))
  /\ UNCHANGED <<config, now, env>>

\* await fn() resolves
FnResolve(c) ==
  /\ call[c].pc = "fetching"
  /\ Commit(c, ItemSucceeded(Settled(Machine(c)), Resolved(CurrentItem(call[c]), call[c].attempt)))
  /\ UNCHANGED <<config, now, env>>

\* await fn() rejects
FnReject(c) ==
  /\ call[c].pc = "fetching"
  /\ obs.failed < env.maxFailures
  /\ \E e \in Rejections :
       /\ Commit(c, AttemptFailed(Settled(Machine(c)), Rejected(e.inst, e.msg, call[c].attempt)))
  /\ UNCHANGED <<config, now, env>>

\* The timer of the backoff sleep fires: continue, attempt++, the next pass
BackoffWake(c) ==
  /\ call[c].pc = "backoffSleep"
  /\ now >= call[c].wake
  /\ Commit(c, throttle([Resumed(Machine(c)) EXCEPT !.r.attempt = @ + 1]))
  /\ UNCHANGED <<config, now, env>>

\* The timer of the inter-batch sleep fires: batchIndex++, the next batch
InterBatchWake(c) ==
  /\ call[c].pc = "batchSleep"
  /\ now >= call[c].wake
  /\ Commit(c, execute([Resumed(Machine(c)) EXCEPT !.r.batchIndex = @ + 1, !.r.itemIdx = 1]))
  /\ UNCHANGED <<config, now, env>>

resetStats ==
  /\ env.resetsLeft > 0
  /\ requestCount' = 0
  /\ errorCount' = 0
  /\ obs' = [obs EXCEPT !.started = 0, !.failed = 0]
  /\ env' = [env EXCEPT !.resetsLeft = @ - 1]
  /\ UNCHANGED <<config, now, lastRequestTime, call, tool, dcf, rebalance, workflow, db, store, cycle>>

\* Time passes while somebody waits, and nobody is kept waiting beyond the bounds
Tick ==
  /\ \E c \in Callers : Waiting(c)
  /\ \A c \in Callers : Waiting(c) => now < Due(c)
  /\ now' = now + env.tickMs
  /\ UNCHANGED <<config, lastRequestTime, requestCount, errorCount, call, obs, env>>
  /\ UNCHANGED <<tool, dcf, rebalance, workflow, db, store, cycle>>

Next ==
  \/ \E c \in Callers : ExecuteBatchCall(c)
  \/ \E c \in Callers : ThrottleWake(c)
  \/ \E c \in Callers : FnResolve(c)
  \/ \E c \in Callers : FnReject(c)
  \/ \E c \in Callers : BackoffWake(c)
  \/ \E c \in Callers : InterBatchWake(c)
  \/ resetStats
  \/ Tick

\* One caller with the limiter to itself; or two callers of one limiter, with
\* resetStats called at any time.
InitSolo ==
  /\ config \in Configs
  /\ \E items \in ItemLists, options \in OptionSets :
       /\ Len(items) * (config.maxRetries + 1) <= MaxAttempts
       /\ call = [c \in Callers |-> IF c = 1 THEN NewCall(items, options)
                                    ELSE NewCall(<<>>, DefaultOptions)]
  /\ env = [active |-> {1}, resetsLeft |-> 0, tickMs |-> 1, maxFailures |-> MaxAttempts]

InitShared ==
  /\ config \in {cf \in Configs : cf.batchSize = 1 /\ cf.maxRetries = 1}
  /\ call = [c \in Callers |-> NewCall(<<"A">>, DefaultOptions)]
  /\ env = [active |-> Callers, resetsLeft |-> MaxResets, tickMs |-> 1,
            maxFailures |-> MaxAttempts]

\* new RateLimiter(...): the fields as the class initialises them
Constructed ==
  /\ lastRequestTime = 0
  /\ requestCount = 0
  /\ errorCount = 0
  /\ obs = NewObs
  /\ tool = NotCalled
  /\ dcf = NotCalled
  /\ rebalance = NotCalled
  /\ OthersNotCalled

Init ==
  /\ Constructed
  /\ (InitSolo \/ InitShared)
  /\ now = StartTime * env.tickMs

Spec == Init /\ [][Next]_vars

\* The scenario of the specification's timing property: a limiter with the
\* default configuration, 23 distinct tickers, time in steps of 500 ms, and
\* fetches of which at most one attempt fails.
TwentyThree ==
  <<"T01", "T02", "T03", "T04", "T05", "T06", "T07", "T08", "T09", "T10",
    "T11", "T12", "T13", "T14", "T15", "T16", "T17", "T18", "T19", "T20",
    "T21", "T22", "T23">>

InitTiming ==
  /\ Constructed
  /\ config = DEFAULT_CONFIG
  /\ call = [c \in Callers |-> IF c = 1 THEN NewCall(TwentyThree, DefaultOptions)
                                ELSE NewCall(<<>>, DefaultOptions)]
  /\ env = [active |-> {1}, resetsLeft |-> 0, tickMs |-> config.minDelayMs, maxFailures |-> 1]
  /\ now = StartTime * env.tickMs

NextCalls ==
  \/ \E c \in Callers : ExecuteBatchCall(c)
  \/ \E c \in Callers : ThrottleWake(c)
  \/ \E c \in Callers : FnResolve(c)
  \/ \E c \in Callers : FnReject(c)
  \/ \E c \in Callers : BackoffWake(c)
  \/ \E c \in Callers : InterBatchWake(c)
  \/ Tick

TimingSpec == InitTiming /\ [][NextCalls]_vars

\* The scenarios of termination: the calls of Init whose items are all the same
\* ticker (which ticker an item is decides nothing but its key in the map), with
\* no resetStats (the counters decide nothing).  The event loop runs a callback
\* that can run, and time passes: weak fairness of the steps.
InitLive ==
  /\ Constructed
  /\ (InitSolo \/ InitShared)
  /\ \A c \in Callers : \A i \in 1..Len(call[c].items) : call[c].items[i] = "A"
  /\ env.resetsLeft = 0
  /\ now = StartTime * env.tickMs

FairSpec == InitLive /\ [][NextCalls]_vars /\ WF_vars(NextCalls)

\* ------------------------------------------------------ JavaScript values
\* A value of the provider's data or of a tool's context is undefined, null, a
\* number, a string or an object.  The numbers of the screener tools are
\* counted in thousandths (12345 is 12.345), except market capitalisations,
\* which are counted in millions of dollars.
JsUndefined == [t |-> "undefined"]
JsNull == [t |-> "null"]
Num(n) == [t |-> "number", v |-> n]
Str(s) == [t |-> "string", v |-> s]
Obj(r) == [t |-> "object", v |-> r]
\* typeof x === 'number'
IsNumber(x) == x.t = "number"
\* The conversion to boolean of if (x), x ? a : b, x || y and !x
Truthy(x) ==
  CASE x.t \in {"undefined", "null"} -> FALSE
    [] x.t = "number" -> x.v # 0
    [] x.t = "string" -> x.v # ""
    [] OTHER -> TRUE
\* a || b
OrElse(a, b) == IF Truthy(a) THEN a ELSE b
\* a ?? b
Coalesce(a, b) == IF a.t \in {"undefined", "null"} THEN b ELSE a
\* o?.f
Opt(o, f) == IF o.t \in {"undefined", "null"} THEN JsUndefined ELSE o.v[f]
\* parseFloat(x.toFixed(2)): the number rounded to two decimals
toFixed2(x) ==
  LET a == IF x < 0 THEN -x ELSE x
      r == ((a + 5) \div 10) * 10
  IN IF x < 0 THEN -r ELSE r
\* x * 100 of a number handed over as a fraction
Percent(x) == x * 100

\* ---------------------------------------------------- the screener tools
\* The universe, cut down to three tickers in two sectors
STOCK_UNIVERSE == << [sector |-> "Technology", tickers |-> <<"AAPL", "MSFT">>],
                     [sector |-> "Energy", tickers |-> <<"XOM">>] >>
RECURSIVE FlatTickers(_)
FlatTickers(u) == IF u = <<>> THEN <<>> ELSE Head(u).tickers \o FlatTickers(Tail(u))
ALL_STOCKS == FlatTickers(STOCK_UNIVERSE)

\* s.toLowerCase() and s.toUpperCase() of the strings the model uses
toLowerCase(s) ==
  CASE s \in {"Technology", "technology"} -> "technology"
    [] s \in {"Energy", "energy"} -> "energy"
    [] OTHER -> s
toUpperCase(s) ==
  CASE s \in {"aapl", "AAPL"} -> "AAPL"
    [] s \in {"msft", "MSFT"} -> "MSFT"
    [] OTHER -> s

InSeq(x, seq) == \E i \in 1..Len(seq) : seq[i] = x
\* The sector of the universe a ticker is listed in, 'Unknown' if none
SectorOf(ticker) ==
  LET hits == {i \in 1..Len(STOCK_UNIVERSE) : InSeq(ticker, STOCK_UNIVERSE[i].tickers)}
  IN IF hits = {} THEN "Unknown"
     ELSE STOCK_UNIVERSE[CHOOSE i \in hits : \A j \in hits : i <= j].sector

\* formatMarketCap: the figure in hundredths of the unit shown
RoundDiv(n, d) == (2 * n + d) \div (2 * d)
formatMarketCap(value) ==
  IF value >= 1000000 THEN [hundredths |-> RoundDiv(value, 10000), unit |-> "T"]
  ELSE IF value >= 1000 THEN [hundredths |-> RoundDiv(value, 10), unit |-> "B"]
  ELSE IF value >= 1 THEN [hundredths |-> value * 100, unit |-> "M"]
  ELSE [hundredths |-> value * 100, unit |-> ""]

\* What a request to the provider settles with: it throws, or it returns
\* nothing, or it returns a quote (a quote summary).
Throws == [kind |-> "throws"]
Returns(x) == [kind |-> "returns", value |-> x]

Quote(long, short, cap, price, pe, yield, beta, change) ==
  Obj([longName |-> long, shortName |-> short, marketCap |-> cap,
       regularMarketPrice |-> price, trailingPE |-> pe, dividendYield |-> yield,
       beta |-> beta, fiftyTwoWeekChangePercent |-> change])
\* A quote with every field set, one with every number 0, one with no field
\* set, and one of a smaller company
Quotes ==
  { Quote(Str("Long Name Inc."), Str("Long"), Num(250000), Num(12345), Num(15004),
          Num(20), Num(1204), Num(-150)),
    Quote(JsUndefined, Str("Short"), Num(0), Num(0), Num(0), Num(0), Num(0), Num(0)),
    Quote(JsUndefined, JsUndefined, JsUndefined, JsUndefined, JsUndefined,
          JsUndefined, JsUndefined, JsUndefined),
    Quote(Str(""), Str(""), Num(3000), Num(995), Num(8000), Num(35), Num(800), Num(250)) }
QuoteOutcomes == {Throws, Returns(JsUndefined)} \cup {Returns(q) : q \in Quotes}

QuoteSummary(detail, financial, profile, stats) ==
  Obj([summaryDetail |-> detail, financialData |-> financial,
       summaryProfile |-> profile, defaultKeyStatistics |-> stats])
Summaries ==
  { QuoteSummary(Obj([beta |-> Num(1204), priceToSalesTrailing12Months |-> Num(3000)]),
                 Obj([revenueGrowth |-> Num(120), profitMargins |-> Num(250),
                      recommendationKey |-> Str("buy")]),
                 Obj([sector |-> Str("Technology")]),
                 Obj([priceToBook |-> Num(2000)])),
    QuoteSummary(Obj([beta |-> Num(0), priceToSalesTrailing12Months |-> Num(0)]),
                 Obj([revenueGrowth |-> Num(0), profitMargins |-> Num(0),
                      recommendationKey |-> Str("")]),
                 Obj([sector |-> Str("")]),
                 Obj([priceToBook |-> Num(0)])),
    QuoteSummary(JsUndefined, JsUndefined, JsUndefined, JsUndefined) }
SummaryOutcomes == {Throws, Returns(JsUndefined)} \cup {Returns(s) : s \in Summaries}

\* ------------------------------------------------------- screenStocksTool
\* The context of a call: the criteria, undefined where the caller gave none
Criteria(sector, minCap, maxCap, minPE, maxPE, minYield, maxYield, minBeta, maxBeta, limit) ==
  [sector |-> sector, minMarketCap |-> minCap, maxMarketCap |-> maxCap,
   minPE |-> minPE, maxPE |-> maxPE, minDividendYield |-> minYield,
   maxDividendYield |-> maxYield, minBeta |-> minBeta, maxBeta |-> maxBeta,
   limit |-> limit]
ScreenContexts ==
  LET u == JsUndefined IN
  { Criteria(u, u, u, u, u, u, u, u, u, u),
    Criteria(Str("technology"), u, u, Num(0), u, u, u, u, Num(1500), u),
    Criteria(Str("Crypto"), Num(1), Num(300), u, Num(20000), Num(0), Num(5000), Num(0), u, Num(1)) }

\* The body of batch.map's callback after await yf.quote(ticker)
screenQuoteNoCatch(ticker, outcome) ==
  IF outcome.kind = "throws" THEN Throws
  ELSE IF ~Truthy(outcome.value) THEN Returns(JsNull)
  ELSE LET quote == outcome.value.v IN
       Returns(Obj([ticker |-> ticker,
                    companyName |-> OrElse(quote.longName, OrElse(quote.shortName, Str(ticker))),
                    sector |-> SectorOf(ticker),
                    marketCap |-> OrElse(quote.marketCap, Num(0)),
                    price |-> OrElse(quote.regularMarketPrice, Num(0)),
                    peRatio |-> Coalesce(quote.trailingPE, JsNull),
                    dividendYield |-> IF Truthy(quote.dividendYield)
                                      THEN Num(Percent(quote.dividendYield.v)) ELSE JsNull,
                    beta |-> Coalesce(quote.beta, JsNull)]))
screenQuote(ticker, outcome) ==
  IF outcome.kind = "throws" THEN Returns(JsNull)
  ELSE screenQuoteNoCatch(ticker, outcome)

\* filtered.filter(...) for one criterion; lo: the criterion is a minimum
FilterBy(filtered, criterion, field, lo) ==
  IF criterion = JsUndefined THEN filtered
  ELSE LET Keep(r) == /\ r.v[field] # JsNull
                      /\ IF lo THEN r.v[field].v >= criterion.v
                         ELSE r.v[field].v <= criterion.v
       IN SelectSeq(filtered, Keep)
FilterByCap(filtered, criterion, lo) ==
  IF criterion = JsUndefined THEN filtered
  ELSE LET Keep(r) == IF lo THEN r.v.marketCap.v >= criterion.v * 1000
                      ELSE r.v.marketCap.v <= criterion.v * 1000
       IN SelectSeq(filtered, Keep)

\* filtered.sort((a, b) => b.marketCap - a.marketCap): stable, descending
RECURSIVE InsertByCap(_, _)
InsertByCap(sorted, r) ==
  IF sorted = <<>> THEN <<r>>
  ELSE IF Head(sorted).v.marketCap.v >= r.v.marketCap.v
       THEN <<Head(sorted)>> \o InsertByCap(Tail(sorted), r)
       ELSE <<r>> \o sorted
RECURSIVE SortByCap(_)
SortByCap(seq) ==
  IF seq = <<>> THEN <<>>
  ELSE InsertByCap(SortByCap(SubSeq(seq, 1, Len(seq) - 1)), seq[Len(seq)])

\* r.x ? parseFloat(r.x.toFixed(2)) : null
RoundedOrNullTypeof(x) == IF IsNumber(x) THEN Num(toFixed2(x.v)) ELSE JsNull
RoundedOrNull(x) == IF Truthy(x) THEN Num(toFixed2(x.v)) ELSE JsNull

screenMatch(r) ==
  [ticker |-> r.v.ticker,
   companyName |-> r.v.companyName,
   sector |-> r.v.sector,
   marketCap |-> formatMarketCap(r.v.marketCap.v),
   marketCapRaw |-> r.v.marketCap,
   price |-> Num(toFixed2(r.v.price.v)),
   peRatio |-> RoundedOrNull(r.v.peRatio),
   dividendYield |-> RoundedOrNull(r.v.dividendYield),
   beta |-> RoundedOrNull(r.v.beta)]

\* The part of execute after the fetch loop: filter, sort, limit, format
screenOutput(context, results) ==
  LET f1 == FilterByCap(results, context.minMarketCap, TRUE)
      f2 == FilterByCap(f1, context.maxMarketCap, FALSE)
      f3 == FilterBy(f2, context.minPE, "peRatio", TRUE)
      f4 == FilterBy(f3, context.maxPE, "peRatio", FALSE)
      f5 == FilterBy(f4, context.minDividendYield, "dividendYield", TRUE)
      f6 == FilterBy(f5, context.maxDividendYield, "dividendYield", FALSE)
      f7 == FilterBy(f6, context.minBeta, "beta", TRUE)
      f8 == FilterBy(f7, context.maxBeta, "beta", FALSE)
      sorted == SortByCap(f8)
      limit == IF context.limit = JsUndefined THEN 10 ELSE context.limit.v
      top == SubSeq(sorted, 1, Min(limit, Len(sorted)))
  IN [matches |-> [i \in 1..Len(top) |-> screenMatch(top[i])],
      totalMatches |-> Len(sorted),
      criteriaUsed |->
        [sector |-> OrElse(context.sector, Str("All")),
         minMarketCap |-> IF Truthy(context.minMarketCap)
                          THEN [billions |-> context.minMarketCap.v] ELSE JsUndefined,
         maxMarketCap |-> IF Truthy(context.maxMarketCap)
                          THEN [billions |-> context.maxMarketCap.v] ELSE JsUndefined,
         minPE |-> context.minPE, maxPE |-> context.maxPE,
         minDividendYield |-> IF Truthy(context.minDividendYield)
                              THEN [percent |-> context.minDividendYield.v] ELSE JsUndefined,
         maxDividendYield |-> IF Truthy(context.maxDividendYield)
                              THEN [percent |-> context.maxDividendYield.v] ELSE JsUndefined,
         minBeta |-> context.minBeta, maxBeta |-> context.maxBeta,
         limit |-> limit]]

\* The locals of a tool call.  inflight: the provider requests that were sent
\* and have not settled, as <<position in batch, kind>>; entries: what the
\* callback of each position of the batch returned, Pending until it has;
\* got: what the requests of each position settled with.  History: requested,
\* the tickers requested so far; seen, for every ticker whose callback has
\* returned, what its requests had settled with; peak, the largest number of
\* requests that were in flight together.
Pending == [t |-> "pending"]
NewTool(name, context) ==
  [name |-> name, pc |-> "idle", context |-> context, tickers |-> <<>>, i |-> 0,
   batch |-> <<>>, inflight |-> {}, got |-> <<>>, entries |-> <<>>, results |-> <<>>,
   output |-> JsUndefined, requested |-> <<>>, seen |-> <<>>, peak |-> 0]
NothingGot == [quote |-> Pending, quoteSummary |-> Pending]

\* tickersToScreen
tickersToScreen(context) ==
  IF Truthy(context.sector)
  THEN LET keys == {k \in 1..Len(STOCK_UNIVERSE) :
                      toLowerCase(STOCK_UNIVERSE[k].sector) = toLowerCase(context.sector.v)}
       IN IF keys # {} THEN STOCK_UNIVERSE[CHOOSE k \in keys : \A j \in keys : k <= j].tickers
          ELSE ALL_STOCKS
  ELSE ALL_STOCKS

\* results.filter((r) => r !== null)
NotNull(seq) == LET Keep(r) == r # JsNull IN SelectSeq(seq, Keep)

\* One pass of the fetch loop up to its await: the batch is cut and a quote is
\* requested for every ticker of it at once
screenBatchWholeList(t) ==
  LET batch == SubSeq(t.tickers, t.i + 1, Len(t.tickers))
  IN [t EXCEPT !.pc = "fetching", !.batch = batch,
               !.inflight = {<<p, "quote">> : p \in 1..Len(batch)},
               !.got = [p \in 1..Len(batch) |-> NothingGot],
               !.entries = [p \in 1..Len(batch) |-> Pending],
               !.requested = @ \o batch,
               !.peak = Max(@, Len(batch))]
screenBatch(t) ==
  LET batch == SubSeq(t.tickers, t.i + 1, Min(t.i + ScreenBatchSize, Len(t.tickers)))
  IN [t EXCEPT !.pc = "fetching", !.batch = batch,
               !.inflight = {<<p, "quote">> : p \in 1..Len(batch)},
               !.got = [p \in 1..Len(batch) |-> NothingGot],
               !.entries = [p \in 1..Len(batch) |-> Pending],
               !.requested = @ \o batch,
               !.peak = Max(@, Len(batch))]

\* The loop's advance after await Promise.all(batchPromises), and the rest of
\* execute when the loop is over
screenNext(t) ==
  LET results == t.results \o NotNull(t.entries)
      i == t.i + Len(t.batch)
      seen == [p \in 1..Len(t.batch) |-> [ticker |-> t.batch[p], got |-> t.got[p]]]
      t1 == [t EXCEPT !.results = results, !.i = i, !.batch = <<>>, !.entries = <<>>,
                      !.got = <<>>, !.seen = @ \o seen]
  IN IF i < Len(t.tickers) THEN screenBatch(t1)
     ELSE [t1 EXCEPT !.pc = "done", !.output = screenOutput(t.context, results)]

\* A quote request of the batch settles; the tool goes on when it was the last
screenSettled(t, p, outcome) ==
  LET entry == screenQuote(t.batch[p], outcome)
      t1 == [t EXCEPT !.inflight = @ \ {<<p, "quote">>}, !.got[p].quote = outcome]
  IN IF entry.kind = "throws" THEN [t1 EXCEPT !.pc = "threw"]
     ELSE LET t2 == [t1 EXCEPT !.entries[p] = entry.value]
          IN IF t2.inflight = {} THEN screenNext(t2) ELSE t2

ScreenStocksExecute ==
  /\ tool.name = "screenStocks"
  /\ tool.pc = "idle"
  /\ tool' = screenBatch([tool EXCEPT !.tickers = tickersToScreen(tool.context)])
  /\ UNCHANGED <<limiterVars, dcf, rebalance, workflow, db, store, cycle>>

ScreenQuoteSettles ==
  /\ tool.name = "screenStocks"
  /\ tool.pc = "fetching"
  /\ \E p \in 1..Len(tool.batch), outcome \in QuoteOutcomes :
       /\ <<p, "quote">> \in tool.inflight
       /\ tool' = screenSettled(tool, p, outcome)
  /\ UNCHANGED <<limiterVars, dcf, rebalance, workflow, db, store, cycle>>

\* --------------------------------------------------- compareCompaniesTool
\* The object the callback of tickers.map returns for a ticker whose two
\* requests resolved; a TypeError thrown on the way is caught
compareEntryNoCatch(upperTicker, quote, summary) ==
  IF ~Truthy(quote) THEN Returns(JsNull)
  ELSE IF summary.t \in {"undefined", "null"} THEN Throws
  ELSE LET q == quote.v
           keyStats == summary.v.defaultKeyStatistics
           financialData == summary.v.financialData
           summaryDetail == summary.v.summaryDetail
       IN Returns(Obj(
            [ticker |-> upperTicker,
             companyName |-> OrElse(q.longName, OrElse(q.shortName, Str(upperTicker))),
             sector |-> OrElse(Opt(summary.v.summaryProfile, "sector"), Str("Unknown")),
             price |-> Num(toFixed2(OrElse(q.regularMarketPrice, Num(0)).v)),
             marketCap |-> formatMarketCap(OrElse(q.marketCap, Num(0)).v),
             marketCapRaw |-> OrElse(q.marketCap, Num(0)),
             peRatio |-> RoundedOrNull(q.trailingPE),
             pbRatio |-> RoundedOrNullTypeof(Opt(keyStats, "priceToBook")),
             psRatio |-> RoundedOrNullTypeof(Opt(summaryDetail, "priceToSalesTrailing12Months")),
             dividendYield |-> IF Truthy(q.dividendYield)
                               THEN Num(toFixed2(Percent(q.dividendYield.v))) ELSE JsNull,
             revenueGrowth |-> IF Truthy(Opt(financialData, "revenueGrowth"))
                               THEN Num(toFixed2(Percent(financialData.v.revenueGrowth.v)))
                               ELSE JsNull,
             profitMargin |-> IF Truthy(Opt(financialData, "profitMargins"))
                              THEN Num(toFixed2(Percent(financialData.v.profitMargins.v)))
                              ELSE JsNull,
             beta |-> RoundedOrNullTypeof(Opt(summaryDetail, "beta")),
             fiftyTwoWeekChange |-> IF Truthy(q.fiftyTwoWeekChangePercent)
                                    THEN Num(toFixed2(Percent(q.fiftyTwoWeekChangePercent.v)))
                                    ELSE JsNull,
             analystRating |-> OrElse(Opt(financialData, "recommendationKey"), JsNull)]))
compareEntry(upperTicker, quote, summary) ==
  LET e == compareEntryNoCatch(upperTicker, quote, summary)
  IN IF e.kind = "throws" THEN Returns(JsNull) ELSE e

\* list.reduce((a, b) => (a.field < b.field ? a : b)), or with > when the
\* higher figure is the better one
RECURSIVE Reduce(_, _, _, _)
Reduce(list, acc, field, lower) ==
  IF list = <<>> THEN acc
  ELSE LET b == Head(list)
           keep == IF lower THEN acc.v[field].v < b.v[field].v
                   ELSE acc.v[field].v > b.v[field].v
       IN Reduce(Tail(list), IF keep THEN acc ELSE b, field, lower)
\* The ticker that is best in a category, null when no company qualifies
Best(list, field, lower) ==
  IF Len(list) > 0 THEN Str(Reduce(Tail(list), Head(list), field, lower).v.ticker)
  ELSE JsNull

compareOutput(results) ==
  LET comparison == NotNull(results)
      HasPE(c) == c.v.peRatio # JsNull /\ c.v.peRatio.v > 0
      HasGrowth(c) == c.v.revenueGrowth # JsNull
      HasBeta(c) == c.v.beta # JsNull
      HasDividend(c) == c.v.dividendYield # JsNull /\ c.v.dividendYield.v > 0
      HasChange(c) == c.v.fiftyTwoWeekChange # JsNull
  IN [comparison |-> comparison,
      summary |->
        [cheapestByPE |-> Best(SelectSeq(comparison, HasPE), "peRatio", TRUE),
         highestGrowth |-> Best(SelectSeq(comparison, HasGrowth), "revenueGrowth", FALSE),
         lowestBeta |-> Best(SelectSeq(comparison, HasBeta), "beta", TRUE),
         highestDividend |-> Best(SelectSeq(comparison, HasDividend), "dividendYield", FALSE),
         bestPerformer |-> Best(SelectSeq(comparison, HasChange), "fiftyTwoWeekChange", FALSE),
         largestCompany |-> Best(comparison, "marketCapRaw", FALSE)]]

\* The lists of tickers compared: two tickers, in either case, or one twice
CompareContexts == { [tickers |-> <<"aapl", "MSFT">>], [tickers |-> <<"XOM", "XOM">>] }

\* tickers.map(async ...): both requests of every ticker are sent at once
compareStart(t) ==
  LET n == Len(t.context.tickers)
      upper == [p \in 1..n |-> toUpperCase(t.context.tickers[p])]
  IN [t EXCEPT !.pc = "fetching", !.tickers = upper, !.batch = upper,
               !.inflight = {<<p, k>> : p \in 1..n, k \in {"quote", "quoteSummary"}},
               !.got = [p \in 1..n |-> NothingGot],
               !.entries = [p \in 1..n |-> Pending],
               !.requested = upper,
               !.peak = 2 * n]

\* A request settles.  The callback of its ticker returns when both of its
\* requests resolved or the first of them threw; execute goes on when every
\* callback has returned.
compareSettled(t, p, k, outcome) ==
  LET t1 == [t EXCEPT !.inflight = @ \ {<<p, k>>}]
      got == [t.got[p] EXCEPT ![k] = outcome]
      returned == outcome.kind = "throws" \/ (got.quote # Pending /\ got.quoteSummary # Pending)
      entry == IF outcome.kind = "throws"
               THEN compareEntry(t.batch[p], JsUndefined, JsUndefined)
               ELSE compareEntry(t.batch[p], got.quote.value, got.quoteSummary.value)
      t2 == IF t.entries[p] # Pending \/ t.pc # "fetching" THEN t1
            ELSE IF ~returned THEN [t1 EXCEPT !.got[p] = got]
            ELSE IF entry.kind = "throws" THEN [t1 EXCEPT !.pc = "threw"]
            ELSE [t1 EXCEPT !.got[p] = got, !.entries[p] = entry.value]
  IN IF t2.pc = "fetching" /\ \A q \in 1..Len(t2.entries) : t2.entries[q] # Pending
     THEN [t2 EXCEPT !.pc = "done", !.results = t2.entries,
                     !.seen = [q \in 1..Len(t2.batch) |->
                                 [ticker |-> t2.batch[q], got |-> t2.got[q]]],
                     !.output = compareOutput(t2.entries)]
     ELSE t2

CompareCompaniesExecute ==
  /\ tool.name = "compareCompanies"
  /\ tool.pc = "idle"
  /\ tool' = compareStart(tool)
  /\ UNCHANGED <<limiterVars, dcf, rebalance, workflow, db, store, cycle>>

CompareRequestSettles ==
  /\ tool.name = "compareCompanies"
  /\ tool.pc \in {"fetching", "done"}
  /\ \E r \in tool.inflight :
       \E outcome \in (IF r[2] = "quote" THEN QuoteOutcomes ELSE SummaryOutcomes) :
         tool' = compareSettled(tool, r[1], r[2], outcome)
  /\ UNCHANGED <<limiterVars, dcf, rebalance, workflow, db, store, cycle>>

ToolNext ==
  \/ ScreenStocksExecute
  \/ ScreenQuoteSettles
  \/ CompareCompaniesExecute
  \/ CompareRequestSettles

InitTools ==
  /\ lastRequestTime = 0
  /\ requestCount = 0
  /\ errorCount = 0
  /\ obs = NewObs
  /\ config = DEFAULT_CONFIG
  /\ call = [c \in Callers |-> NewCall(<<>>, DefaultOptions)]
  /\ env = [active |-> {}, resetsLeft |-> 0, tickMs |-> 1, maxFailures |-> 0]
  /\ now = StartTime
  /\ tool \in {NewTool("screenStocks", c) : c \in ScreenContexts}
            \cup {NewTool("compareCompanies", c) : c \in CompareContexts}
  /\ dcf = NotCalled
  /\ rebalance = NotCalled
  /\ OthersNotCalled

ToolSpec == InitTools /\ [][ToolNext]_vars

\* ------------------------------------------------- the numbers of the DCF
\* A number of the DCF calculator is a fraction n / d in lowest terms with
\* d > 0, or NaN, Infinity or -Infinity, the results JavaScript gives where a
\* fraction has none.  Rates are percentages; money is counted in millions of
\* dollars and shares in millions.
\* The operators that recur evaluate each operand once and go on with its value
RECURSIVE GCD(_, _)
GCDOf(a, b) == IF b = 0 THEN a ELSE GCD(b, a % b)
GCD(a0, b0) == CHOOSE r \in {GCDOf(a, b) : a \in {a0}, b \in {b0}} : TRUE
Abs(x) == IF x < 0 THEN -x ELSE x
Frac(n, d) ==
  LET g == GCD(Abs(n), Abs(d))
      s == IF d < 0 THEN -1 ELSE 1
  IN [t |-> "number", n |-> s * (n \div g), d |-> s * (d \div g)]
R(n) == Frac(n, 1)
NaN == [t |-> "NaN"]
\* Infinity and -Infinity
Inf(sign) == [t |-> IF sign >= 0 THEN "Infinity" ELSE "-Infinity"]
Finite(x) == x.t = "number"
\* The conversion of an operand to a number
ToNumber(x) ==
  CASE x.t = "undefined" -> NaN
    [] x.t = "null" -> R(0)
    [] OTHER -> x
SignOf(x) ==
  CASE x.t = "Infinity" -> 1
    [] x.t = "-Infinity" -> -1
    [] OTHER -> IF x.n > 0 THEN 1 ELSE IF x.n < 0 THEN -1 ELSE 0
\* if (x), x || y on a number or undefined
TruthyNumber(x) ==
  CASE x.t \in {"undefined", "null", "NaN"} -> FALSE
    [] x.t = "number" -> x.n # 0
    [] OTHER -> TRUE

\* The operators below evaluate each operand once and compute on its value
NegOf(a0) ==
  LET a == ToNumber(a0) IN
  CASE a.t = "NaN" -> NaN
    [] a.t = "number" -> Frac(-a.n, a.d)
    [] OTHER -> Inf(-SignOf(a))
\* -a
Neg(a0) == CHOOSE r \in {NegOf(a) : a \in {a0}} : TRUE
AddOf(a0, b0) ==
  LET a == ToNumber(a0)
      b == ToNumber(b0)
  IN IF a.t = "NaN" \/ b.t = "NaN" THEN NaN
     ELSE IF Finite(a) /\ Finite(b)
          THEN LET l == (a.d \div GCD(a.d, b.d)) * b.d
               IN Frac(a.n * (l \div a.d) + b.n * (l \div b.d), l)
     ELSE IF Finite(a) THEN b
     ELSE IF Finite(b) THEN a
     ELSE IF a = b THEN a ELSE NaN
\* a + b
Add(a0, b0) ==
  CHOOSE r \in {AddOf(a, b) : a \in {a0}, b \in {b0}} : TRUE
\* a - b
Sub(a, b) == Add(a, Neg(b))
MulOf(a0, b0) ==
  LET a == ToNumber(a0)
      b == ToNumber(b0)
  IN IF a.t = "NaN" \/ b.t = "NaN" THEN NaN
     ELSE IF Finite(a) /\ Finite(b)
          THEN LET g1 == GCD(Abs(a.n), b.d)
                   g2 == GCD(Abs(b.n), a.d)
               IN Frac((a.n \div g1) * (b.n \div g2), (a.d \div g2) * (b.d \div g1))
     ELSE IF SignOf(a) = 0 \/ SignOf(b) = 0 THEN NaN
     ELSE Inf(SignOf(a) * SignOf(b))
\* a * b
Mul(a0, b0) ==
  CHOOSE r \in {MulOf(a, b) : a \in {a0}, b \in {b0}} : TRUE
DivOf(a0, b0) ==
  LET a == ToNumber(a0)
      b == ToNumber(b0)
  IN IF a.t = "NaN" \/ b.t = "NaN" THEN NaN
     ELSE IF Finite(a) /\ Finite(b)
          THEN IF b.n = 0 THEN (IF a.n = 0 THEN NaN ELSE Inf(SignOf(a)))
               ELSE MulOf(a, Frac(b.d, b.n))
     ELSE IF Finite(a) THEN R(0)
     ELSE IF Finite(b) THEN Inf(SignOf(a) * (IF SignOf(b) < 0 THEN -1 ELSE 1))
     ELSE NaN
\* a / b; the zero a difference of equal numbers gives is +0
Div(a0, b0) ==
  CHOOSE r \in {DivOf(a, b) : a \in {a0}, b \in {b0}} : TRUE
RECURSIVE Pow(_, _)
PowOf(a, k) == IF k = 0 THEN R(1) ELSE Mul(a, Pow(a, k - 1))
\* Math.pow(a, k) for a whole k >= 0
Pow(a0, k0) ==
  CHOOSE r \in {PowOf(a, k) : a \in {a0}, k \in {k0}} : TRUE
LessOf(a0, b0) ==
  LET a == ToNumber(a0)
      b == ToNumber(b0)
  IN IF a.t = "NaN" \/ b.t = "NaN" THEN FALSE
     ELSE IF Finite(a) /\ Finite(b) THEN a.n * b.d < b.n * a.d
     ELSE SignOf(a) < SignOf(b) /\ a # b
\* a < b
Less(a0, b0) ==
  CHOOSE r \in {LessOf(a, b) : a \in {a0}, b \in {b0}} : TRUE
MathMinOf(a, b) ==
  IF ToNumber(a).t = "NaN" \/ ToNumber(b).t = "NaN" THEN NaN
  ELSE IF LessOf(b, a) THEN ToNumber(b) ELSE ToNumber(a)
MathMin(a0, b0) ==
  CHOOSE r \in {MathMinOf(a, b) : a \in {a0}, b \in {b0}} : TRUE
MathMaxOf(a, b) ==
  IF ToNumber(a).t = "NaN" \/ ToNumber(b).t = "NaN" THEN NaN
  ELSE IF LessOf(a, b) THEN ToNumber(b) ELSE ToNumber(a)
MathMax(a0, b0) ==
  CHOOSE r \in {MathMaxOf(a, b) : a \in {a0}, b \in {b0}} : TRUE
\* 1 + rate / 100
OnePlus(rate) == Add(R(1), Div(rate, R(100)))

\* ------------------------------------------------------ the DCF calculator
calculateWACCInclusive(marketCap, customRate) ==
  IF customRate # JsUndefined THEN customRate
  ELSE IF ~Less(marketCap, R(200 * 1000)) THEN R(9)
  ELSE IF ~Less(marketCap, R(50 * 1000)) THEN R(10)
  ELSE IF ~Less(marketCap, R(10 * 1000)) THEN R(11)
  ELSE IF ~Less(marketCap, R(2 * 1000)) THEN Frac(25, 2)
  ELSE R(14)
calculateWACC(marketCap, customRate) ==
  IF customRate # JsUndefined THEN customRate
  ELSE IF Less(R(200 * 1000), marketCap) THEN R(9)
  ELSE IF Less(R(50 * 1000), marketCap) THEN R(10)
  ELSE IF Less(R(10 * 1000), marketCap) THEN R(11)
  ELSE IF Less(R(2 * 1000), marketCap) THEN Frac(25, 2)
  ELSE R(14)

\* Math.min(revenueGrowth, 25)
cappedGrowth(revenueGrowth) == MathMin(revenueGrowth, R(25))
estimateFCFGrowthRateAboveCap(revenueGrowth, terminalGrowthRate) ==
  IF revenueGrowth = JsUndefined \/ revenueGrowth = JsNull
  THEN Div(Add(terminalGrowthRate, R(8)), R(2))
  ELSE IF Less(revenueGrowth, R(0)) \/ Less(R(25), revenueGrowth) THEN terminalGrowthRate
       ELSE Add(Mul(revenueGrowth, Frac(7, 10)), Mul(terminalGrowthRate, Frac(3, 10)))
estimateFCFGrowthRateFalsy(revenueGrowth, terminalGrowthRate) ==
  IF ~TruthyNumber(revenueGrowth)
  THEN Div(Add(terminalGrowthRate, R(8)), R(2))
  ELSE IF Less(cappedGrowth(revenueGrowth), R(0)) THEN terminalGrowthRate
       ELSE Add(Mul(cappedGrowth(revenueGrowth), Frac(7, 10)),
                Mul(terminalGrowthRate, Frac(3, 10)))
estimateFCFGrowthRate(revenueGrowth, terminalGrowthRate) ==
  IF revenueGrowth = JsUndefined \/ revenueGrowth = JsNull
  THEN Div(Add(terminalGrowthRate, R(8)), R(2))
  ELSE IF Less(cappedGrowth(revenueGrowth), R(0)) THEN terminalGrowthRate
       ELSE Add(Mul(cappedGrowth(revenueGrowth), Frac(7, 10)),
                Mul(terminalGrowthRate, Frac(3, 10)))

\* sumPV of calcIntrinsicValue's loop, from year on
RECURSIVE SumPV(_, _, _, _, _)
SumPV(inputs, discountRate, fcfGrowth, year, projectionYears) ==
  IF year > projectionYears THEN R(0)
  ELSE Add(Div(Mul(inputs.freeCashFlow, Pow(OnePlus(fcfGrowth), year)),
               Pow(OnePlus(discountRate), year)),
           SumPV(inputs, discountRate, fcfGrowth, year + 1, projectionYears))

\* The Gordon growth formula: the value of all cash flows after the final year
GordonValue(finalFCF, discountRate, terminalGrowth) ==
  Div(Mul(finalFCF, OnePlus(terminalGrowth)),
      Sub(Div(discountRate, R(100)), Div(terminalGrowth, R(100))))

\* A value per share that leaves the net debt out
calcIntrinsicValueNoDebt(inputs, projectionYears, netDebt, discountRate, fcfGrowth, terminalGrowth) ==
  Div(Add(SumPV(inputs, discountRate, fcfGrowth, 1, projectionYears),
          Div(GordonValue(Mul(inputs.freeCashFlow,
                              Pow(OnePlus(fcfGrowth), projectionYears)),
                          discountRate, terminalGrowth),
              Pow(OnePlus(discountRate), projectionYears))),
      inputs.sharesOutstanding)

\* The intrinsic value of a scenario
calcIntrinsicValue(inputs, projectionYears, netDebt, discountRate, fcfGrowth, terminalGrowth) ==
  Div(Sub(Add(SumPV(inputs, discountRate, fcfGrowth, 1, projectionYears),
              Div(GordonValue(Mul(inputs.freeCashFlow,
                                  Pow(OnePlus(fcfGrowth), projectionYears)),
                              discountRate, terminalGrowth),
                  Pow(OnePlus(discountRate), projectionYears))),
          netDebt),
      inputs.sharesOutstanding)

calculateSensitivityNoFloor(inputs, baseDiscountRate, baseFCFGrowth, baseTerminalGrowth, projectionYears, netDebt) ==
  << [scenario |-> "bear",
      discountRate |-> Add(baseDiscountRate, R(2)),
      growthRate |-> MathMax(Sub(baseFCFGrowth, R(2)), R(0)),
      intrinsicValue |-> calcIntrinsicValue(inputs, projectionYears, netDebt,
                           Add(baseDiscountRate, R(2)),
                           MathMax(Sub(baseFCFGrowth, R(2)), R(0)),
                           MathMax(Sub(baseTerminalGrowth, R(1)), R(2)))],
     [scenario |-> "base",
      discountRate |-> baseDiscountRate,
      growthRate |-> baseFCFGrowth,
      intrinsicValue |-> calcIntrinsicValue(inputs, projectionYears, netDebt,
                           baseDiscountRate, baseFCFGrowth, baseTerminalGrowth)],
     [scenario |-> "bull",
      discountRate |-> Sub(baseDiscountRate, R(2)),
      growthRate |-> MathMin(Add(baseFCFGrowth, R(2)), R(25)),
      intrinsicValue |-> calcIntrinsicValue(inputs, projectionYears, netDebt,
                           Sub(baseDiscountRate, R(2)),
                           MathMin(Add(baseFCFGrowth, R(2)), R(25)),
                           MathMin(Add(baseTerminalGrowth, R(1)), R(4)))] >>
calculateSensitivity(inputs, baseDiscountRate, baseFCFGrowth, baseTerminalGrowth, projectionYears, netDebt) ==
  << [scenario |-> "bear",
      discountRate |-> Add(baseDiscountRate, R(2)),
      growthRate |-> MathMax(Sub(baseFCFGrowth, R(2)), R(0)),
      intrinsicValue |-> calcIntrinsicValue(inputs, projectionYears, netDebt,
                           Add(baseDiscountRate, R(2)),
                           MathMax(Sub(baseFCFGrowth, R(2)), R(0)),
                           MathMax(Sub(baseTerminalGrowth, R(1)), R(2)))],
     [scenario |-> "base",
      discountRate |-> baseDiscountRate,
      growthRate |-> baseFCFGrowth,
      intrinsicValue |-> calcIntrinsicValue(inputs, projectionYears, netDebt,
                           baseDiscountRate, baseFCFGrowth, baseTerminalGrowth)],
     [scenario |-> "bull",
      discountRate |-> MathMax(Sub(baseDiscountRate, R(2)), R(5)),
      growthRate |-> MathMin(Add(baseFCFGrowth, R(2)), R(25)),
      intrinsicValue |-> calcIntrinsicValue(inputs, projectionYears, netDebt,
                           MathMax(Sub(baseDiscountRate, R(2)), R(5)),
                           MathMin(Add(baseFCFGrowth, R(2)), R(25)),
                           MathMin(Add(baseTerminalGrowth, R(1)), R(4)))] >>

\* projectedCashFlows.reduce((sum, cf) => sum + cf.presentValue, 0)
RECURSIVE SumPresentValues(_, _)
SumPresentValues(cashFlows, sum) ==
  IF cashFlows = <<>> THEN sum
  ELSE SumPresentValues(Tail(cashFlows), Add(sum, Head(cashFlows).presentValue))

\* Step 1 of calculateDCF: the assumptions.  The number of years is a whole
\* number.
terminalGrowthRateOf(inputs) ==
  IF TruthyNumber(inputs.terminalGrowthRate) THEN inputs.terminalGrowthRate ELSE R(3)
DCFAssumptions(inputs) ==
  [discountRate |-> calculateWACC(inputs.marketCap, inputs.discountRate),
   terminalGrowthRate |-> terminalGrowthRateOf(inputs),
   projectionYears |-> IF TruthyNumber(inputs.projectionYears)
                       THEN inputs.projectionYears.n ELSE 5,
   initialFCF |-> inputs.freeCashFlow,
   fcfGrowthRate |-> estimateFCFGrowthRate(inputs.revenueGrowth,
                                           terminalGrowthRateOf(inputs))]

\* Step 2: the projected cash flow of each year
projectedCashFlows(inputs, a) ==
  [year \in 1..a.projectionYears |->
     [year |-> year,
      fcf |-> Mul(inputs.freeCashFlow, Pow(OnePlus(a.fcfGrowthRate), year)),
      presentValue |-> Div(Mul(inputs.freeCashFlow, Pow(OnePlus(a.fcfGrowthRate), year)),
                           Pow(OnePlus(a.discountRate), year)),
      discountFactor |-> Pow(OnePlus(a.discountRate), year)]]

\* Step 3: the terminal value and its present value
terminalValueNominal(cashFlows, a) ==
  GordonValue(cashFlows[a.projectionYears].fcf, a.discountRate, a.terminalGrowthRate)
terminalValuePV(cashFlows, a) ==
  Div(terminalValueNominal(cashFlows, a), Pow(OnePlus(a.discountRate), a.projectionYears))

\* Step 4: the enterprise value
enterpriseValue(cashFlows, a) ==
  Add(SumPresentValues(cashFlows, R(0)), terminalValuePV(cashFlows, a))

\* Steps 5 and 6: net debt, equity value and the value per share
netDebt(inputs) == Sub(inputs.totalDebt, inputs.cash)
equityValue(inputs, cashFlows, a) == Sub(enterpriseValue(cashFlows, a), netDebt(inputs))
intrinsicValue(inputs, cashFlows, a) ==
  Div(equityValue(inputs, cashFlows, a), inputs.sharesOutstanding)

\* Steps 7 and 8: the sensitivity analysis and the results
DCFOutputs(inputs, a, cashFlows) ==
  [threw |-> FALSE,
   intrinsicValue |-> intrinsicValue(inputs, cashFlows, a),
   enterpriseValue |-> enterpriseValue(cashFlows, a),
   equityValue |-> equityValue(inputs, cashFlows, a),
   assumptions |-> a,
   projectedCashFlows |-> cashFlows,
   terminalValue |-> [nominal |-> terminalValueNominal(cashFlows, a),
                      presentValue |-> terminalValuePV(cashFlows, a)],
   sensitivity |-> calculateSensitivity(inputs, a.discountRate, a.fcfGrowthRate,
                                        a.terminalGrowthRate, a.projectionYears,
                                        netDebt(inputs))]

\* calculateDCF, each step computed once.  With fewer than one year
\* projectedCashFlows is empty and reading the fcf of its last entry throws a
\* TypeError.
calculateDCFWith(inputs, a0) ==
  IF a0.projectionYears < 1 THEN [threw |-> TRUE, error |-> "TypeError"]
  ELSE CHOOSE out \in {DCFOutputs(inputs, a, cashFlows) :
                         a \in {a0}, cashFlows \in {projectedCashFlows(inputs, a0)}} : TRUE
calculateDCF(inputs) ==
  CHOOSE out \in {calculateDCFWith(inputs, a) : a \in {DCFAssumptions(inputs)}} : TRUE

\* The inputs calculateDCF is called with
DCFInputs(fcf, debt, cash, shares, cap, growth, rate, terminal, years) ==
  [freeCashFlow |-> fcf, totalDebt |-> debt, cash |-> cash, sharesOutstanding |-> shares,
   marketCap |-> cap, revenueGrowth |-> growth, discountRate |-> rate,
   terminalGrowthRate |-> terminal, projectionYears |-> years]
\* Market caps on, just above and below the thresholds of calculateWACC
MarketCaps == {R(m) : m \in {1000, 2000, 2001, 10000, 10001, 50000, 50001, 200000, 200001}}
RevenueGrowths == {JsUndefined, JsNull, R(0), R(-5), R(10), R(30)}
DiscountRates == {R(0), R(3), R(4), R(10)}
TerminalGrowths == {JsUndefined, R(0), R(2), R(3), R(8)}
DCFInputSet ==
  \* the default discount rate, over the market caps
  { DCFInputs(R(100), R(40), R(10), R(10), cap, growth, JsUndefined, terminal, R(years)) :
      cap \in MarketCaps, growth \in RevenueGrowths, terminal \in TerminalGrowths,
      years \in {1, 2} }
  \cup
  \* a discount rate supplied by the caller
  { DCFInputs(R(100), R(40), R(10), R(10), cap, growth, rate, terminal, R(years)) :
      cap \in {R(1000), R(100000)}, growth \in RevenueGrowths, rate \in DiscountRates,
      terminal \in TerminalGrowths, years \in {1, 2} }
  \cup
  \* figures that are absent, zero or negative
  { DCFInputs(fcf, R(0), cash, shares, R(100000), JsUndefined, rate, JsUndefined, R(1)) :
      fcf \in {JsUndefined, R(0), R(-50), R(100)}, cash \in {R(0), R(500)},
      shares \in {JsUndefined, R(0), R(10)}, rate \in {JsUndefined, R(2)} }
  \cup
  \* the number of years: three years, a number below 1, and the default of 5
  \* (with an absent cash flow: the fractions of five years of a cash flow
  \* outgrow the integers of the model checker)
  { DCFInputs(R(1), R(0), R(0), R(1), R(100000), R(-5), JsUndefined, R(2), years) :
      years \in {R(-1), R(3)} }
  \cup
  { DCFInputs(JsUndefined, R(0), R(0), R(1), R(100000), R(-5), rate, R(2), years) :
      rate \in {JsUndefined, R(2)}, years \in {JsUndefined, R(0)} }

CalculateDCF ==
  /\ dcf.pc = "called"
  /\ dcf' = [dcf EXCEPT !.pc = "returned", !.out = calculateDCF(dcf.inputs)]
  /\ UNCHANGED <<limiterVars, tool, rebalance, workflow, db, store, cycle>>

InitDcf ==
  /\ lastRequestTime = 0
  /\ requestCount = 0
  /\ errorCount = 0
  /\ obs = NewObs
  /\ config = DEFAULT_CONFIG
  /\ call = [c \in Callers |-> NewCall(<<>>, DefaultOptions)]
  /\ env = [active |-> {}, resetsLeft |-> 0, tickMs |-> 1, maxFailures |-> 0]
  /\ now = StartTime
  /\ tool = NotCalled
  /\ dcf \in {[pc |-> "called", inputs |-> inputs, out |-> JsUndefined] : inputs \in DCFInputSet}
  /\ rebalance = NotCalled
  /\ OthersNotCalled

DcfSpec == InitDcf /\ [][CalculateDCF]_vars

\* ------------------------------------------------------ the rebalance engine
\* The review cycle of the rebalance engine up to its trade plan: LOADED,
\* RESCORED, SELL_FLAGGED, BUY_CANDIDATES_FOUND, TRADE_PLAN_BUILT.  The
\* repository plans the cycle as monthlyReviewWorkflow (src/PLAN.md) and holds
\* no code of it; the steps follow the specification of the engine and carry
\* the names of the planned steps.  Scores are inputs of the cycle.
\* maxMonthlyTurnover of a portfolio: none, fewer than the holdings, the default
Turnovers == {0, 2, 10}
\* A holding with the data of its review: the score at entry, the score the
\* rescoring gives, its return less the benchmark's in points, the
\* deterioration signal, and whether its data could be fetched: healthy; on
\* both thresholds; score dropped; underperforming; deteriorated; score dropped
\* with a failed fetch
HoldingProfiles ==
  { [entryScore |-> 60, freshScore |-> p[1], excessReturn |-> p[2],
     deteriorated |-> p[3], fetched |-> p[4]] :
      p \in { <<60, 0, FALSE, TRUE>>, <<45, -10, FALSE, TRUE>>, <<40, 0, FALSE, TRUE>>,
              <<60, -11, FALSE, TRUE>>, <<60, 0, TRUE, TRUE>>, <<40, 0, FALSE, FALSE>> } }
\* The n qualifying candidates in screening order, the best of them at most top
Candidates(n, top) ==
  [i \in 1..n |-> [ticker |-> <<"new", i>>, score |-> top - ((3 * i) % 5)]]
\* The portfolios and screens a cycle starts from
RebalanceInputs ==
  { [pc |-> "LOADED", maxMonthlyTurnover |-> turnover, holdings |-> holdings,
     candidates |-> Candidates(n, top), sells |-> <<>>, buys |-> <<>>, trades |-> <<>>] :
      turnover \in Turnovers,
      holdings \in UNION {[1..h -> HoldingProfiles] : h \in 0..MaxHoldings},
      n \in 0..MaxCandidates, top \in {70, 80} }

\* RESCORED: each holding whose data was fetched records its currentScore
rescoreCurrentHoldings(holdings) ==
  SelectSeq([i \in DOMAIN holdings |->
               [ticker |-> <<"held", i>>, entryScore |-> holdings[i].entryScore,
                currentScore |-> IF holdings[i].fetched THEN holdings[i].freshScore ELSE -1,
                excessReturn |-> holdings[i].excessReturn,
                deteriorated |-> holdings[i].deteriorated]],
            LAMBDA h : h.currentScore >= 0)

ScoreOf(x) == IF "currentScore" \in DOMAIN x THEN x.currentScore ELSE x.score
\* The list ranked by score, equal scores in their order in the list
RECURSIVE Ranked(_, _)
Ranked(list, ascending) ==
  IF list = <<>> THEN <<>>
  ELSE LET first == CHOOSE i \in DOMAIN list : \A j \in DOMAIN list :
                      \/ IF ascending THEN ScoreOf(list[i]) < ScoreOf(list[j])
                                      ELSE ScoreOf(list[i]) > ScoreOf(list[j])
                      \/ ScoreOf(list[i]) = ScoreOf(list[j]) /\ i <= j
       IN <<list[first]>> \o Ranked(SubSeq(list, 1, first - 1)
                                    \o SubSeq(list, first + 1, Len(list)), ascending)

\* The sell criteria: any of the four flags a holding
MeetsSellCriteria(h, candidates) ==
  \/ h.currentScore < h.entryScore - 15
  \/ h.excessReturn < -10
  \/ \E i \in DOMAIN candidates : candidates[i].score >= h.currentScore + 20
  \/ h.deteriorated
\* SELL_FLAGGED: the flagged holdings, weakest first, at most maxMonthlyTurnover
identifySellCandidates(holdings, candidates, maxMonthlyTurnover) ==
  SubSeq(Ranked(SelectSeq(holdings, LAMBDA h : MeetsSellCriteria(h, candidates)), TRUE),
         1, Min(maxMonthlyTurnover, Len(SelectSeq(holdings, LAMBDA h : MeetsSellCriteria(h, candidates)))))

identifyBuyCandidatesUncapped(candidates, sells, maxMonthlyTurnover) ==
  SubSeq(Ranked(candidates, FALSE), 1, Min(maxMonthlyTurnover, Len(candidates)))
\* BUY_CANDIDATES_FOUND: the candidates, strongest first, at most the number of
\* sells or maxMonthlyTurnover, whichever is smaller
identifyBuyCandidates(candidates, sells, maxMonthlyTurnover) ==
  SubSeq(Ranked(candidates, FALSE),
         1, Min(Min(Len(sells), maxMonthlyTurnover), Len(candidates)))

\* TRADE_PLAN_BUILT: the sells, then the buys, each in ranked order
generateTradeList(sells, buys) ==
  [i \in DOMAIN sells |-> [ticker |-> sells[i].ticker, action |-> "SELL"]]
  \o [i \in DOMAIN buys |-> [ticker |-> buys[i].ticker, action |-> "BUY"]]

RescoreCurrentHoldings ==
  /\ rebalance.pc = "LOADED"
  /\ rebalance' = [rebalance EXCEPT !.pc = "RESCORED",
                                    !.holdings = rescoreCurrentHoldings(@)]
  /\ UNCHANGED <<limiterVars, tool, dcf, workflow, db, store, cycle>>

IdentifySellCandidates ==
  /\ rebalance.pc = "RESCORED"
  /\ rebalance' = [rebalance EXCEPT
       !.pc = "SELL_FLAGGED",
       !.sells = identifySellCandidates(rebalance.holdings, rebalance.candidates,
                                        rebalance.maxMonthlyTurnover)]
  /\ UNCHANGED <<limiterVars, tool, dcf, workflow, db, store, cycle>>

IdentifyBuyCandidates ==
  /\ rebalance.pc = "SELL_FLAGGED"
  /\ rebalance' = [rebalance EXCEPT
       !.pc = "BUY_CANDIDATES_FOUND",
       !.buys = identifyBuyCandidates(rebalance.candidates, rebalance.sells,
                                      rebalance.maxMonthlyTurnover)]
  /\ UNCHANGED <<limiterVars, tool, dcf, workflow, db, store, cycle>>

GenerateTradeList ==
  /\ rebalance.pc = "BUY_CANDIDATES_FOUND"
  /\ rebalance' = [rebalance EXCEPT
       !.pc = "TRADE_PLAN_BUILT",
       !.trades = generateTradeList(rebalance.sells, rebalance.buys)]
  /\ UNCHANGED <<limiterVars, tool, dcf, workflow, db, store, cycle>>

RebalanceNext ==
  \/ RescoreCurrentHoldings
  \/ IdentifySellCandidates
  \/ IdentifyBuyCandidates
  \/ GenerateTradeList

InitRebalance ==
  /\ lastRequestTime = 0
  /\ requestCount = 0
  /\ errorCount = 0
  /\ obs = NewObs
  /\ config = DEFAULT_CONFIG
  /\ call = [c \in Callers |-> NewCall(<<>>, DefaultOptions)]
  /\ env = [active |-> {}, resetsLeft |-> 0, tickMs |-> 1, maxFailures |-> 0]
  /\ now = StartTime
  /\ tool = NotCalled
  /\ dcf = NotCalled
  /\ rebalance \in RebalanceInputs
  /\ OthersNotCalled

RebalanceSpec == InitRebalance /\ [][RebalanceNext]_vars

\* ----------------------------------------------------------------- claims
Returned(c) == call[c].pc = "done"
\* The occurrence of an item that used up all its attempts
Exhausted(o) == ~o.last.ok /\ o.failures = config.maxRetries + 1
Solo == Cardinality(env.active) = 1

\* C1: with default options executeBatch never throws, and the map it returns
\* has an entry for every item of the input list, each the value fn resolved
\* with for that item or an Error; every item of the list was fetched, in
\* order, whatever items before it failed on all their attempts.
C1_CompleteMap ==
  \A c \in Callers :
    call[c].options = DefaultOptions =>
      /\ call[c].pc # "threw"
      /\ Returned(c) =>
           /\ \A i \in 1..Len(call[c].items) :
                /\ MapHas(call[c].results, call[c].items[i])
                /\ LET e == MapGet(call[c].results, call[c].items[i])
                   IN IF e.ok THEN e.msg = call[c].items[i] ELSE e.inst
           /\ Len(call[c].outcomes) = Len(call[c].items)
           /\ \A i \in 1..Len(call[c].items) :
                /\ call[c].outcomes[i].item = call[c].items[i]
                /\ call[c].outcomes[i].failures >= (IF call[c].outcomes[i].last.ok THEN 0 ELSE 1)

\* A returned call whose first item failed on all attempts and whose later
\* item was fetched.
C1_Witness ==
  \E c \in Callers :
    /\ call[c].options = DefaultOptions
    /\ Returned(c)
    /\ Len(call[c].items) >= 2
    /\ Exhausted(call[c].outcomes[1])
    /\ call[c].outcomes[2].last.ok

\* C2: on a limiter with one caller, any two consecutive fetch attempts start
\* at least minDelayMs apart.
C2_SoloMinDelay ==
  Solo => (obs.lastGap = -1 \/ obs.lastGap >= config.minDelayMs)

\* The first fetch of a second chunk has started, after a retry in the first.
C2_Witness ==
  /\ Solo
  /\ obs.lastGap >= config.minDelayMs
  /\ \E c \in Callers :
       /\ call[c].pc = "fetching"
       /\ call[c].batchIndex >= 1
       /\ call[c].outcomes[1].failures >= 1

\* C3: on a limiter shared by several callers, any two fetch attempts still
\* start at least minDelayMs apart.
C3_SharedMinDelay ==
  obs.lastGap = -1 \/ obs.lastGap >= config.minDelayMs


\* C4: a failed attempt a < maxRetries is followed by a sleep of
\* baseBackoffMs * 2^a and then by attempt a + 1, on either branch of the catch;
\* fn is called at most maxRetries + 1 times in one execute call, and a
\* resolved attempt ends the call.
C4_State(c) ==
  LET r == call[c] IN
  /\ r.fnCalls <= config.maxRetries + 1
  /\ r.pc = "fetching" => r.fnCalls = r.attempt + 1
  /\ r.pc = "backoffSleep" =>
       /\ r.attempt < config.maxRetries
       /\ r.retryBranch = (IF isRateLimitError(r.lastRejected) THEN "rateLimit" ELSE "other")
       /\ r.sleepMs = config.baseBackoffMs * (2 ^ r.attempt)

C4_Step(c) ==
  LET r == call[c]
      r2 == call'[c]
  IN r2 # r =>
     /\ (r.pc = "fetching" /\ obs'.failed = obs.failed + 1 /\ r.attempt < config.maxRetries) =>
          /\ r2.pc = "backoffSleep"
          /\ r2.sleepMs = config.baseBackoffMs * (2 ^ r.attempt)
          /\ r2.wake = now + r2.sleepMs
          /\ r2.attempt = r.attempt
     /\ r.pc = "backoffSleep" =>
          /\ now >= r.wake
          /\ r2.attempt = r.attempt + 1
          /\ r2.pc \in {"throttleSleep", "fetching"}
          /\ r2.completed = r.completed
     /\ r.pc = "throttleSleep" =>
          /\ r2.pc = "fetching"
          /\ r2.attempt = r.attempt
     /\ (r.pc = "fetching" /\ obs'.failed = obs.failed) =>
          /\ r2.completed = r.completed + 1
          /\ r2.outcomes[Len(r2.outcomes)].last.ok
          /\ r2.outcomes[Len(r2.outcomes)].failures = r.attempt
          /\ r2.fnCalls = r.fnCalls \/ r2.fnCalls <= 1

\* C4: a failed attempt is retried after a sleep of baseBackoffMs * 2^attempt,
\* on the rate-limit branch and on the other one alike, at most maxRetries
\* times; the first attempt that resolves ends the call with its value.
C4_Retry ==
  /\ [](\A c \in Callers : C4_State(c))
  /\ [][\A c \in Callers : C4_Step(c)]_vars

\* The second retry of an error that is no rate-limit error is being awaited.
C4_Witness ==
  \E c \in Callers :
    /\ call[c].pc = "backoffSleep"
    /\ call[c].attempt = 2
    /\ call[c].retryBranch = "other"
    /\ call[c].lastError.at = 2
    /\ call[c].sleepMs = 4 * config.baseBackoffMs

\* C5: the outcome a call reports for an item
Reported(o) == IF o.last.ok THEN o.last ELSE ToError(o.last)
LastOccurrence(outs, k) ==
  CHOOSE j \in 1..Len(outs) :
    outs[j].item = k /\ \A j2 \in (j + 1)..Len(outs) : outs[j2].item # k

\* C5 as stated: for each item processed, the map entry is an Error exactly
\* when all maxRetries + 1 attempts for that item failed, and is then the error
\* of the last attempt; otherwise it is the value of the first attempt that
\* succeeded.
C5_EveryItem ==
  \A c \in Callers : \A j \in 1..Len(call[c].outcomes) :
    LET o == call[c].outcomes[j]
        e == MapGet(call[c].results, o.item)
    IN /\ ~e.ok <=> Exhausted(o)
       /\ e = Reported(o)

\* C5 as amended: the map entry of an item is the outcome of the item's last
\* occurrence in the list: the error of its last attempt when all
\* maxRetries + 1 attempts of that occurrence failed, otherwise the value of
\* the first attempt of it that succeeded; no earlier failure is reported.
C5_LastOccurrence ==
  \A c \in Callers :
    /\ \A j \in 1..Len(call[c].outcomes) :
         LET o == call[c].outcomes[j]
         IN /\ MapHas(call[c].results, o.item)
            /\ ~o.last.ok <=> o.failures = config.maxRetries + 1
            /\ o.last.at = (IF o.last.ok THEN o.failures ELSE config.maxRetries)
    /\ \A i \in 1..Len(call[c].results) :
         LET k == call[c].results[i].key
             o == call[c].outcomes[LastOccurrence(call[c].outcomes, k)]
         IN call[c].results[i].val = Reported(o)

\* An item that failed on all attempts, with errors of both kinds, is listed
\* again and fetched at its second attempt.
C5_Witness ==
  \E c \in Callers :
    /\ Len(call[c].outcomes) = 2
    /\ call[c].outcomes[1].item = call[c].outcomes[2].item
    /\ Exhausted(call[c].outcomes[1])
    /\ call[c].outcomes[2].last.ok
    /\ call[c].outcomes[2].failures = 1
    /\ MapGet(call[c].results, call[c].outcomes[2].item).ok

\* C6: every executeBatch call that was made ends: it returns, or with
\* continueOnError off it rethrows the error of an item.
C6_Terminates ==
  \A c \in Callers :
    (call[c].pc # "idle") ~>
      (Returned(c) \/ (call[c].pc = "threw" /\ ~call[c].options.continueOnError))

\* A call has returned although every attempt of each of its items failed.
C6_Witness ==
  \E c \in Callers :
    /\ Returned(c)
    /\ config.maxRetries >= 1
    /\ Len(call[c].outcomes) >= 2
    /\ \A j \in 1..Len(call[c].outcomes) : Exhausted(call[c].outcomes[j])

\* C7: the batches are the input list cut, in order, into runs of batchSize
\* items, the last one possibly shorter; the items are processed in the order
\* of the list; there is one inter-batch sleep of interBatchDelayMs after each
\* batch but the last, and the first fetch of a batch starts at least
\* interBatchDelayMs after the last fetch of the batch before it ended.
RECURSIVE Flatten(_)
Flatten(seqs) == IF seqs = <<>> THEN <<>> ELSE Head(seqs) \o Flatten(Tail(seqs))

\* C7: batches of batchSize items in list order, processed in order, with one
\* inter-batch sleep between consecutive batches (stated in full above).
C7_Batches ==
  \A c \in Callers :
    LET r == call[c]
        n == Len(r.batches)
        processing == r.pc \in {"throttleSleep", "fetching", "backoffSleep"}
    IN r.pc # "idle" =>
       /\ Flatten(r.batches) = r.items
       /\ \A b \in 1..n :
            /\ Len(r.batches[b]) >= 1
            /\ Len(r.batches[b]) <= config.batchSize
            /\ b < n => Len(r.batches[b]) = config.batchSize
       /\ \A j \in 1..Len(r.outcomes) : r.outcomes[j].item = r.items[j]
       /\ processing =>
            /\ r.completed = r.batchIndex * config.batchSize + r.itemIdx - 1
            /\ Len(r.outcomes) = r.completed
            /\ r.interBatchSleeps = r.batchIndex
       /\ (r.pc = "fetching" /\ r.batchIndex >= 1 /\ r.itemIdx = 1 /\ r.attempt = 0) =>
            r.chunkGap >= config.interBatchDelayMs
       /\ r.pc = "batchSleep" =>
            /\ r.batchIndex < n - 1
            /\ r.completed = (r.batchIndex + 1) * config.batchSize
            /\ r.sleepMs = config.interBatchDelayMs
            /\ r.interBatchSleeps = r.batchIndex + 1
       /\ Returned(c) => r.interBatchSleeps = Max(n - 1, 0) /\ r.completed = Len(r.items)

\* The one item of the shorter second batch is being fetched.
C7_Witness ==
  \E c \in Callers :
    /\ config.batchSize = 2
    /\ Len(call[c].items) = 3
    /\ call[c].pc = "fetching"
    /\ call[c].batchIndex = 1
    /\ call[c].chunkGap = config.interBatchDelayMs

\* getStats()
getStats ==
  [requestCount |-> requestCount,
   errorCount |-> errorCount,
   \* the rate, as the fraction num / den
   successRate |-> IF requestCount > 0
                   THEN [num |-> requestCount - errorCount, den |-> requestCount]
                   ELSE [num |-> 1, den |-> 1]]

\* C9: requestCount counts the attempts started and errorCount the attempts
\* that failed since construction or the last resetStats, errorCount is at most
\* requestCount, and the success rate lies in [0, 1].
C9_CountersConsistent ==
  /\ requestCount = obs.started
  /\ errorCount = obs.failed
  /\ errorCount <= requestCount
  /\ getStats.successRate.num >= 0
  /\ getStats.successRate.num <= getStats.successRate.den

\* The deadlines a caller may have in mind when it makes its call.  executeBatch
\* takes none: its parameters are items, fn and the three options.
Deadlines == StartTime..(StartTime + 1)

\* C10: once the deadline of the caller has passed, executeBatch stops between
\* batches: no batch has its first fetch started after the deadline (the items
\* left would be reported as timed out).
C10_DeadlineHonoured ==
  \A c \in Callers, deadline \in Deadlines :
    LET r == call[c] IN
    (r.pc = "fetching" /\ r.batchIndex >= 1 /\ r.itemIdx = 1 /\ r.attempt = 0)
      => r.startedAt <= deadline


\* The time from the call of executeBatch to its return
Elapsed == now - StartTime * env.tickMs

\* C8: 23 items take at least 23 * 500 ms + 2 * 2000 ms.
C8_AtLeastEstimate ==
  Returned(1) => Elapsed >= 23 * config.minDelayMs + 2 * config.interBatchDelayMs

\* C8, with the unthrottled first fetch of a batch taken into account: 23 items
\* in 3 batches take at least 20 * 500 ms + 2 * 2000 ms:
\* the first fetch of each batch waits for no minimum delay, on a fresh limiter
\* for the first batch and after the longer inter-batch sleep for the others.
C8_AtLeastThrottled ==
  Returned(1) => Elapsed >= (23 - 3) * config.minDelayMs + 2 * config.interBatchDelayMs

\* The call has returned all 23 results after 14000 ms.
C8_Witness ==
  /\ Returned(1)
  /\ Len(call[1].results) = 23
  /\ \A i \in 1..23 : call[1].results[i].val.ok
  /\ Elapsed = 14000

\* ------------------------------------------------- the screener tools' claims
InFlight == Cardinality(tool.inflight)

Supplied(x) == x.t \notin {"undefined", "null", "pending"}
AbsenceKept(raw, reported) ==
  /\ (reported = JsNull) <=> ~Supplied(raw)
  /\ (Supplied(raw) /\ raw = Num(0)) => reported = Num(0)
ReturnedQuote(s) == s.got.quote.kind = "returns" /\ Truthy(s.got.quote.value)

\* C18: in the output of screenStocksTool and of compareCompaniesTool a
\* nullable metric (peRatio, dividendYield, beta, revenueGrowth, profitMargin)
\* is null exactly when the provider did not supply the field, and a supplied
\* 0 is reported as 0.
C18_AbsenceDistinct ==
  /\ (tool.name = "screenStocks" /\ tool.pc = "done") =>
       \A i \in 1..Len(tool.output.matches) : \A j \in 1..Len(tool.seen) :
         LET m == tool.output.matches[i]
             s == tool.seen[j]
         IN (s.ticker = m.ticker /\ ReturnedQuote(s)) =>
              LET quote == s.got.quote.value.v IN
              /\ AbsenceKept(quote.trailingPE, m.peRatio)
              /\ AbsenceKept(quote.dividendYield, m.dividendYield)
              /\ AbsenceKept(quote.beta, m.beta)
  /\ (tool.name = "compareCompanies" /\ tool.pc = "done") =>
       \A p \in 1..Len(tool.results) :
         tool.results[p] # JsNull =>
           LET c == tool.results[p].v
               quote == tool.seen[p].got.quote.value.v
               summary == tool.seen[p].got.quoteSummary.value.v
           IN /\ AbsenceKept(quote.trailingPE, c.peRatio)
              /\ AbsenceKept(quote.dividendYield, c.dividendYield)
              /\ AbsenceKept(Opt(summary.summaryDetail, "beta"), c.beta)
              /\ AbsenceKept(Opt(summary.financialData, "revenueGrowth"), c.revenueGrowth)
              /\ AbsenceKept(Opt(summary.financialData, "profitMargins"), c.profitMargin)

\* C19: in screenStocksTool a ticker whose quote request throws or returns
\* nothing is left out of the candidates, every ticker of the universe screened
\* is still fetched, and the tool call never fails: the candidates are the
\* tickers whose request returned a quote, in the order of the universe.
C19_FailuresExcluded ==
  tool.name = "screenStocks" =>
    /\ tool.pc # "threw"
    /\ tool.pc = "done" =>
         LET kept == SelectSeq(tool.seen, ReturnedQuote) IN
         /\ tool.requested = tickersToScreen(tool.context)
         /\ [j \in 1..Len(tool.seen) |-> tool.seen[j].ticker] = tool.requested
         /\ \A j \in 1..Len(tool.seen) : tool.seen[j].got.quote # Pending
         /\ [j \in 1..Len(tool.results) |-> tool.results[j].v.ticker]
              = [j \in 1..Len(kept) |-> kept[j].ticker]
         /\ tool.output.totalMatches <= Len(kept)

C19_Witness ==
  /\ tool.name = "screenStocks"
  /\ tool.pc = "done"
  /\ Len(tool.seen) = 3
  /\ tool.seen[1].got.quote = Throws
  /\ tool.seen[2].got.quote = Returns(JsUndefined)
  /\ ReturnedQuote(tool.seen[3])
  /\ Len(tool.results) = 1
  /\ tool.output.totalMatches = 1

\* ------------------------------------------- claims of the DCF calculator
\* calculateDCF has returned a result
Valued == dcf.pc = "returned" /\ ~dcf.out.threw
Absent(x) == x = JsUndefined \/ x = JsNull
\* a >= b of two numbers
GreaterEq(a, b) == a.t # "NaN" /\ b.t # "NaN" /\ ~Less(a, b)
\* A failure a caller can tell from a valuation: an error thrown, or a value
\* per share that is no finite number
DistinguishableFailure(out) == out.threw \/ out.intrinsicValue.t # "number"

\* C12: calculateDCF returns a distinguishable failure whenever freeCashFlow or
\* sharesOutstanding is absent and whenever the discount rate used is at most
\* the terminal growth rate used
C12_FailureDistinguishable ==
  dcf.pc = "returned" =>
    /\ (Absent(dcf.inputs.freeCashFlow) \/ Absent(dcf.inputs.sharesOutstanding))
         => dcf.out.threw
    /\ (~dcf.out.threw
        /\ GreaterEq(dcf.out.assumptions.terminalGrowthRate,
                     dcf.out.assumptions.discountRate))
         => DistinguishableFailure(dcf.out)

\* The terminal growth rate of the scenario at position i
ScenarioTerminalGrowth(i, t) ==
  CASE i = 1 -> MathMax(Sub(t, R(1)), R(2))
    [] i = 2 -> t
    [] i = 3 -> MathMin(Add(t, R(1)), R(4))
FlaggedInvalid(s) == "valid" \in DOMAIN s /\ s.valid = FALSE

\* C13: every scenario whose discount rate minus terminal growth rate is <= 0
\* is flagged invalid, and none reports a value per share computed from a zero
\* or negative Gordon-growth denominator
C13_ScenariosFlagged ==
  Valued =>
    \A i \in DOMAIN dcf.out.sensitivity :
      GreaterEq(ScenarioTerminalGrowth(i, dcf.out.assumptions.terminalGrowthRate),
                dcf.out.sensitivity[i].discountRate)
        => /\ FlaggedInvalid(dcf.out.sensitivity[i])
           /\ dcf.out.sensitivity[i].intrinsicValue.t # "number"

\* C14: with a base discount rate above the base terminal growth rate and a
\* positive free cash flow (here: with every figure present and a positive
\* number of shares as well), bull >= base >= bear
C14_Ordered ==
  ( /\ Valued
    /\ Less(dcf.out.assumptions.terminalGrowthRate, dcf.out.assumptions.discountRate)
    /\ Less(R(0), dcf.inputs.freeCashFlow)
    /\ Less(R(0), dcf.inputs.sharesOutstanding)
    /\ ~Absent(dcf.inputs.totalDebt) /\ ~Absent(dcf.inputs.cash) )
  => /\ GreaterEq(dcf.out.sensitivity[3].intrinsicValue,
                  dcf.out.sensitivity[2].intrinsicValue)
     /\ GreaterEq(dcf.out.sensitivity[2].intrinsicValue,
                  dcf.out.sensitivity[1].intrinsicValue)

\* The value per share of the projection formula of calculateDCF itself under
\* the assumptions (d, g, t)
ScenarioAssumptions(d, g, t) ==
  [dcf.out.assumptions EXCEPT !.discountRate = d, !.fcfGrowthRate = g,
                              !.terminalGrowthRate = t]
ProjectionWith(d, g, t) ==
  intrinsicValue(dcf.inputs,
                 projectedCashFlows(dcf.inputs, ScenarioAssumptions(d, g, t)),
                 ScenarioAssumptions(d, g, t))
ScenarioIs(s, name, d, g, t) ==
  /\ s.scenario = name
  /\ s.discountRate = d
  /\ s.growthRate = g
  /\ s.intrinsicValue = ProjectionWith(d, g, t)

C16_DefaultGrowth ==
  Valued =>
    dcf.out.assumptions.fcfGrowthRate =
      IF Absent(dcf.inputs.revenueGrowth)
      THEN Div(Add(dcf.out.assumptions.terminalGrowthRate, R(8)), R(2))
      ELSE IF Less(dcf.inputs.revenueGrowth, R(0))
      THEN dcf.out.assumptions.terminalGrowthRate
      ELSE Add(Mul(MathMin(dcf.inputs.revenueGrowth, R(25)), Frac(7, 10)),
               Mul(dcf.out.assumptions.terminalGrowthRate, Frac(3, 10)))
\* A revenue growth of 0 with the default terminal growth of 3: 0.9, not 5.5
C16_Witness ==
  /\ Valued
  /\ dcf.inputs.revenueGrowth = R(0)
  /\ dcf.out.assumptions.terminalGrowthRate = R(3)
  /\ dcf.out.assumptions.fcfGrowthRate = Frac(9, 10)

\* The default rate of the tiers, market caps in millions of dollars
TierRate(marketCap) ==
  IF Less(R(200000), marketCap) THEN R(9)
  ELSE IF Less(R(50000), marketCap) THEN R(10)
  ELSE IF Less(R(10000), marketCap) THEN R(11)
  ELSE IF Less(R(2000), marketCap) THEN Frac(25, 2)
  ELSE R(14)

TradesOf(action) == SelectSeq(rebalance.trades, LAMBDA t : t.action = action)

\* C20: the BUY trades of a trade plan are at most the actioned SELL trades and
\* at most maxMonthlyTurnover; with no holding meeting a sell criterion the
\* plan is empty; with 3 sell candidates, 7 qualifying buy candidates and
\* maxMonthlyTurnover = 10 the plan has exactly 3 buys
C20_BuysBounded ==
  rebalance.pc = "TRADE_PLAN_BUILT" =>
    /\ Len(TradesOf("BUY")) <= Len(TradesOf("SELL"))
    /\ Len(TradesOf("BUY")) <= rebalance.maxMonthlyTurnover
    /\ (\A i \in DOMAIN rebalance.holdings :
          ~MeetsSellCriteria(rebalance.holdings[i], rebalance.candidates))
         => rebalance.trades = <<>>
    /\ ( /\ Len(rebalance.sells) = 3
         /\ Len(rebalance.candidates) = 7
         /\ rebalance.maxMonthlyTurnover = 10 )
         => Len(TradesOf("BUY")) = 3
\* Three holdings sold, seven candidates, a turnover of 10: three buys, the
\* strongest candidates
C20_Witness ==
  /\ rebalance.pc = "TRADE_PLAN_BUILT"
  /\ Len(TradesOf("SELL")) = 3
  /\ Len(rebalance.candidates) = 7
  /\ rebalance.maxMonthlyTurnover = 10
  /\ Len(TradesOf("BUY")) = 3
  /\ rebalance.buys[1].ticker = <<"new", 5>>

\* ----------------------------------------- claims of the limiter, continued
C24_State(c) ==
  LET r == call[c]
      n == Len(r.outcomes)
  IN ~r.options.continueOnError =>
       /\ \A i \in 1..(n - 1) : r.outcomes[i].last.ok
       /\ (n > 0 /\ ~r.outcomes[n].last.ok) => r.pc = "threw"
       /\ r.pc = "threw" =>
            /\ n > 0
            /\ r.outcomes[n].item = r.items[n]
            /\ Exhausted(r.outcomes[n])
            /\ r.thrown = ToError(r.outcomes[n].last)
            /\ r.onErrorCalls = (IF r.options.onError THEN 1 ELSE 0)
            /\ r.completed = n - 1
            /\ r.onProgressCalls = (IF r.options.onProgress THEN n - 1 ELSE 0)

\* C24: with continueOnError = false executeBatch stops at the first item whose
\* fetch fails on all attempts: onError is called once for it, its error is
\* rethrown, the items before it were fetched, and afterwards the call starts
\* no fetch, calls no onProgress and sleeps no more
C24_StopsAtFirstFailure ==
  /\ [](\A c \in Callers : C24_State(c))
  /\ [][\A c \in Callers : call[c].pc = "threw" => call'[c] = call[c]]_vars

\* The second of three items failed on all attempts after the first was
\* fetched; the third was never fetched
C24_Witness ==
  \E c \in Callers :
    /\ ~call[c].options.continueOnError
    /\ call[c].pc = "threw"
    /\ Len(call[c].items) = 3
    /\ Len(call[c].outcomes) = 2
    /\ call[c].outcomes[1].last.ok
    /\ call[c].onErrorCalls = 1
    /\ call[c].onProgressCalls = 1

\* ------------------------------- claims of the DCF calculator, continued
\* C26: the base entry of the sensitivity list agrees with the top-level
\* result: its discountRate, growthRate and intrinsicValue are
\* assumptions.discountRate, assumptions.fcfGrowthRate and intrinsicValue
C26_BaseAgrees ==
  Valued =>
    /\ \E i \in DOMAIN dcf.out.sensitivity : dcf.out.sensitivity[i].scenario = "base"
    /\ \A i \in DOMAIN dcf.out.sensitivity :
         dcf.out.sensitivity[i].scenario = "base" =>
           /\ dcf.out.sensitivity[i].discountRate = dcf.out.assumptions.discountRate
           /\ dcf.out.sensitivity[i].growthRate = dcf.out.assumptions.fcfGrowthRate
           /\ dcf.out.sensitivity[i].intrinsicValue = dcf.out.intrinsicValue
\* Two years, a net debt of 30 and a finite value on both paths
C26_Witness ==
  /\ Valued
  /\ dcf.out.assumptions.projectionYears = 2
  /\ Sub(dcf.inputs.totalDebt, dcf.inputs.cash) = R(30)
  /\ dcf.out.intrinsicValue.t = "number"
  /\ dcf.out.sensitivity[2].intrinsicValue = dcf.out.intrinsicValue

\* C27: every override supplied to calculateDCF (discountRate,
\* terminalGrowthRate, projectionYears) is the value used and reported in the
\* assumptions, a supplied 0 included; the defaults (market-cap WACC, 3, 5)
\* apply only when the field is absent
C27_OverridesUsed ==
  Valued =>
    /\ dcf.out.assumptions.discountRate =
         IF Absent(dcf.inputs.discountRate) THEN TierRate(dcf.inputs.marketCap)
         ELSE dcf.inputs.discountRate
    /\ dcf.out.assumptions.terminalGrowthRate =
         IF Absent(dcf.inputs.terminalGrowthRate) THEN R(3)
         ELSE dcf.inputs.terminalGrowthRate
    /\ R(dcf.out.assumptions.projectionYears) =
         IF Absent(dcf.inputs.projectionYears) THEN R(5)
         ELSE dcf.inputs.projectionYears

\* The revenue growths r <= the one of the call for which the claim compares
\* the estimates
Present(r) == ~Absent(r)
LowerGrowths(sameSide) ==
  { r \in RevenueGrowths :
      /\ Present(r) /\ Present(dcf.inputs.revenueGrowth)
      /\ ~Less(dcf.inputs.revenueGrowth, r)
      /\ sameSide =>
           \/ Less(r, R(0)) <=> Less(dcf.inputs.revenueGrowth, R(0))
           \/ ~Less(MathMin(dcf.inputs.revenueGrowth, R(25)),
                    dcf.out.assumptions.terminalGrowthRate) }

\* C28: for a fixed terminal growth rate the estimated FCF growth is monotone
\* in the revenue growth: r1 <= r2 (both present) gives
\* estimateFCFGrowthRate(r1, t) <= estimateFCFGrowthRate(r2, t)
C28_Monotone ==
  Valued =>
    \A r \in LowerGrowths(FALSE) :
      GreaterEq(dcf.out.assumptions.fcfGrowthRate,
                estimateFCFGrowthRate(r, dcf.out.assumptions.terminalGrowthRate))
\* C28 as amended: monotone for r1 <= r2 that are both negative or both not
\* negative, and for r1 < 0 <= r2 when min(r2, 25) is at least the terminal
\* growth rate
C28_MonotoneSameSide ==
  Valued =>
    \A r \in LowerGrowths(TRUE) :
      GreaterEq(dcf.out.assumptions.fcfGrowthRate,
                estimateFCFGrowthRate(r, dcf.out.assumptions.terminalGrowthRate))
\* A revenue growth of 30, capped at 25, against the estimates of 0, 10 and -5
C28_Witness ==
  /\ Valued
  /\ dcf.inputs.revenueGrowth = R(30)
  /\ dcf.out.assumptions.terminalGrowthRate = R(3)
  /\ dcf.out.assumptions.fcfGrowthRate = Frac(184, 10)
  /\ LowerGrowths(TRUE) = {R(-5), R(0), R(10), R(30)}

\* ------------------------- executeBatchFiltered and processWithProgress
\* Math.ceil(n / d) of integers n and d > 0; Math.ceil gives -0, which is not
\* below 0, for a quotient between -1 and 0.
Ceil(n, d) == -((-n) \div d)

estimateTime(itemCount) ==
  LET batches == Ceil(itemCount, config.batchSize)
      requestTime == itemCount * config.minDelayMs
      interBatchTime == (batches - 1) * config.interBatchDelayMs
      totalMs == requestTime + interBatchTime
  IN [estimatedSeconds |-> Ceil(totalMs, 1000), estimatedMinutes |-> Ceil(totalMs, 60000)]

\* A filtered call that hands the options on as it got them.
executeBatchFilteredAsGiven(m) == executeBatch(m)

\* executeBatchFiltered, up to its await:
\* this.executeBatch(items, fn, { ...options, continueOnError: true })
executeBatchFiltered(m) ==
  executeBatch([m EXCEPT !.r.options = [@ EXCEPT !.continueOnError = TRUE]])

\* for (const [item, result] of allResults)
\*   if (!(result instanceof Error)) successfulResults.push({ item, result })
RECURSIVE successfulResults(_)
successfulResults(allResults) ==
  IF allResults = <<>> THEN <<>>
  ELSE (IF ~Head(allResults).val.inst
        THEN <<[item |-> Head(allResults).key, result |-> Head(allResults).val]>>
        ELSE <<>>) \o successfulResults(Tail(allResults))

\* processWithProgress, up to its await: the estimate is logged, and the batch
\* runs with the two callbacks of the progress log.
processWithProgress(m) ==
  executeBatchFiltered(
    [m EXCEPT !.r.estimate = estimateTime(Len(m.r.items)),
              !.r.estimatedFor = Len(m.r.items),
              !.r.options = [onProgress |-> TRUE, onError |-> TRUE, continueOnError |-> TRUE]])

ProcessWithProgressCall(c) ==
  /\ c \in env.active
  /\ call[c].pc = "idle"
  /\ Commit(c, processWithProgress(Machine(c)))
  /\ UNCHANGED <<config, now, env>>

ExecuteBatchFilteredCall(c) ==
  /\ c \in env.active
  /\ call[c].pc = "idle"
  /\ Commit(c, executeBatchFiltered(Machine(c)))
  /\ UNCHANGED <<config, now, env>>

\* await this.executeBatch(...) has resolved: the filter, and the return
ExecuteBatchFilteredReturn(c) ==
  /\ call[c].pc = "done"
  /\ call' = [call EXCEPT ![c].pc = "returned",
                          ![c].successfulResults = successfulResults(call[c].results)]
  /\ UNCHANGED <<config, now, lastRequestTime, requestCount, errorCount, obs, env>>
  /\ UNCHANGED <<tool, dcf, rebalance, workflow, db, store, cycle>>

FilterNext ==
  \/ \E c \in Callers : ProcessWithProgressCall(c)
  \/ \E c \in Callers : ExecuteBatchFilteredCall(c)
  \/ \E c \in Callers : ThrottleWake(c)
  \/ \E c \in Callers : FnResolve(c)
  \/ \E c \in Callers : FnReject(c)
  \/ \E c \in Callers : BackoffWake(c)
  \/ \E c \in Callers : InterBatchWake(c)
  \/ \E c \in Callers : ExecuteBatchFilteredReturn(c)
  \/ Tick

\* The limiter of processWithProgress when none is given: the
\* yahooFinanceRateLimiter, of the default configuration, with time in steps
\* of its minimum delay and at most one item.
InitYahoo ==
  /\ config = DEFAULT_CONFIG
  /\ \E items \in {l \in ItemLists : Len(l) <= 1}, options \in OptionSets :
       call = [c \in Callers |-> IF c = 1 THEN NewCall(items, options)
                                 ELSE NewCall(<<>>, DefaultOptions)]
  /\ env = [active |-> {1}, resetsLeft |-> 0, tickMs |-> config.minDelayMs,
            maxFailures |-> MaxAttempts]

InitFilter ==
  /\ Constructed
  /\ (InitSolo \/ InitYahoo)
  /\ now = StartTime * env.tickMs

FilterSpec == InitFilter /\ [][FilterNext]_vars

\* ------------------------------------- claims of the filtered batch call
Distinct(seq) == \A i, j \in 1..Len(seq) : seq[i] = seq[j] => i = j

\* The items whose fetch succeeded in the end, with what it resolved with, in
\* the order in which the items were given.
Succeeded(c) ==
  LET ok == SelectSeq(call[c].outcomes, LAMBDA o : o.last.ok)
  IN [i \in 1..Len(ok) |-> [item |-> ok[i].item, result |-> ok[i].last]]

\* C23: executeBatchFiltered runs the batch with continueOnError = true and
\* never throws because an item failed; for pairwise distinct items it returns
\* exactly the items whose fetch succeeded in the end, each with its result,
\* in input order.
C23_FilteredResults ==
  \A c \in Callers :
    /\ call[c].pc # "threw"
    /\ call[c].pc # "idle" => call[c].options.continueOnError
    /\ call[c].pc = "returned" /\ Distinct(call[c].items) =>
         /\ Len(call[c].outcomes) = Len(call[c].items)
         /\ \A i \in 1..Len(call[c].items) : call[c].outcomes[i].item = call[c].items[i]
         /\ call[c].successfulResults = Succeeded(c)

C23_Witness ==
  /\ call[1].pc = "returned"
  /\ call[1].items = <<"A", "B">>
  /\ call[1].onErrorCalls = 1
  /\ ~call[1].outcomes[1].last.ok
  /\ call[1].successfulResults = <<[item |-> "B", result |-> Resolved("B", 1)]>>

\* C25: estimateTime(N) is never negative, for N = 0 too, and does not
\* decrease in N.
C25_EstimateNotNegative ==
  \A c \in Callers :
    call[c].estimatedFor >= 0 =>
      /\ call[c].estimate.estimatedSeconds >= 0
      /\ call[c].estimate.estimatedMinutes >= 0
      /\ \A n \in 0..call[c].estimatedFor :
           /\ estimateTime(n).estimatedSeconds <= call[c].estimate.estimatedSeconds
           /\ estimateTime(n).estimatedMinutes <= call[c].estimate.estimatedMinutes

\* A specification that does not use the limiter leaves it as constructed.
LimiterNotUsed ==
  /\ lastRequestTime = 0
  /\ requestCount = 0
  /\ errorCount = 0
  /\ obs = NewObs
  /\ config = DEFAULT_CONFIG
  /\ call = [c \in Callers |-> NewCall(<<>>, DefaultOptions)]
  /\ env = [active |-> {}, resetsLeft |-> 0, tickMs |-> 1, maxFailures |-> 0]
  /\ now = StartTime

\* ------------------------------------------------------- getDbClient
MaxDbCalls == 2      \* calls of getDbClient one caller makes

\* let dbClient: any = null.  A client is named by the number of the
\* createClient call that made it.
NoClient == 0
NewDbCall == [pc |-> "idle", got |-> NoClient, calls |-> 0]

\* dbClient = createClient({ url })
clientCreated(d) == [d EXCEPT !.dbClient = d.created + 1, !.created = @ + 1]

\* return dbClient
clientReturned(d, c) ==
  [d EXCEPT !.call[c].pc = "returned", !.call[c].got = d.dbClient,
            !.returned = @ \cup {d.dbClient}]

\* getDbClient(), up to its first await
GetDbClient(c) ==
  /\ db.call[c].pc \in {"idle", "returned", "threw"}
  /\ db.call[c].calls < MaxDbCalls
  /\ LET d == [db EXCEPT !.call[c].calls = @ + 1, !.call[c].got = NoClient]
     IN db' = IF d.dbClient = NoClient
              THEN [d EXCEPT !.call[c].pc = "importFs"]
              ELSE clientReturned(d, c)
  /\ UNCHANGED <<limiterVars, tool, dcf, rebalance, workflow, store, cycle>>

\* await import('fs/promises') resolves: mkdir(DB_DIR, { recursive: true })
ImportFsResolves(c) ==
  /\ db.call[c].pc = "importFs"
  /\ db' = [db EXCEPT !.call[c].pc = "mkdir"]
  /\ UNCHANGED <<limiterVars, tool, dcf, rebalance, workflow, store, cycle>>

\* await mkdir(...) resolves: import('@libsql/client')
MkdirResolves(c) ==
  /\ db.call[c].pc = "mkdir"
  /\ db' = [db EXCEPT !.call[c].pc = "importClient"]
  /\ UNCHANGED <<limiterVars, tool, dcf, rebalance, workflow, store, cycle>>

\* await mkdir(...) rejects, and getDbClient with it
MkdirRejects(c) ==
  /\ db.call[c].pc = "mkdir"
  /\ db' = [db EXCEPT !.call[c].pc = "threw"]
  /\ UNCHANGED <<limiterVars, tool, dcf, rebalance, workflow, store, cycle>>

\* await import('@libsql/client') resolves: the client is created and returned
ImportClientResolves(c) ==
  /\ db.call[c].pc = "importClient"
  /\ db' = clientReturned(clientCreated(db), c)
  /\ UNCHANGED <<limiterVars, tool, dcf, rebalance, workflow, store, cycle>>

DbNext ==
  \/ \E c \in Callers : GetDbClient(c)
  \/ \E c \in Callers : ImportFsResolves(c)
  \/ \E c \in Callers : MkdirResolves(c)
  \/ \E c \in Callers : MkdirRejects(c)
  \/ \E c \in Callers : ImportClientResolves(c)

InitDb ==
  /\ LimiterNotUsed
  /\ tool = NotCalled
  /\ dcf = NotCalled
  /\ rebalance = NotCalled
  /\ workflow = NotCalled
  /\ store = NotCalled
  /\ cycle = NotCalled
  /\ db = [dbClient |-> NoClient, created |-> 0, returned |-> {},
           call |-> [c \in Callers |-> NewDbCall]]

DbSpec == InitDb /\ [][DbNext]_vars

\* C29: getDbClient creates at most one client: createClient is invoked once,
\* and every call that returns, overlapping calls too, returns the same client.
C29_OneClient ==
  /\ db.created <= 1
  /\ Cardinality(db.returned) <= 1
  /\ db.returned # {} => db.created = 1

\* ------------------------------------------- the stock screener workflow
\* The criteria of a run: none, a sector, a limit of 1, and a limit of 0.
WorkflowCriteria ==
  LET u == JsUndefined IN
  { Criteria(u, u, u, u, u, u, u, u, u, u),
    Criteria(Str("Technology"), u, u, u, u, u, u, u, u, u),
    Criteria(u, u, u, u, u, u, u, u, u, Num(1)),
    Criteria(u, u, u, u, u, u, u, u, u, Num(0)) }

\* What the provider answers during a run: a request throws, or resolves
\* with the fullest of the quotes, or with an empty summary.
WorkflowQuoteOutcomes ==
  {o \in QuoteOutcomes : o.kind = "throws" \/ Opt(o.value, "longName") = Str("Long Name Inc.")}
WorkflowSummaryOutcomes ==
  {o \in SummaryOutcomes : o.kind = "throws" \/ o.value = JsUndefined}

\* A run that has not started.  History: compareCalls, the contexts
\* compareCompaniesTool.execute was called with.
NewRun(criteria) ==
  [pc |-> "created", criteria |-> criteria, matches |-> <<>>, totalMatches |-> 0,
   comparison |-> <<>>, summary |-> JsUndefined, compareCalls |-> <<>>]

\* The context the step screenStocks hands to screenStocksTool.execute
screenStocksContext(criteria) == [criteria EXCEPT !.limit = OrElse(criteria.limit, Num(10))]

\* The summary of a run with no matches
NullSummary ==
  [cheapestByPE |-> JsNull, highestGrowth |-> JsNull, lowestBeta |-> JsNull,
   highestDividend |-> JsNull, bestPerformer |-> JsNull, largestCompany |-> JsNull]

\* The return of the step screenStocks with the output t of the tool, and the
\* step compareAndRank up to its await
compareAndRank(w, t) ==
  LET w1 == [w EXCEPT !.matches = t.output.matches, !.totalMatches = t.output.totalMatches]
      tickers == [i \in 1..Len(w1.matches) |-> w1.matches[i].ticker]
  IN IF Len(w1.matches) = 0
     THEN [workflow |-> [w1 EXCEPT !.pc = "synthesize", !.comparison = <<>>,
                                  !.summary = NullSummary],
           tool |-> t]
     ELSE [workflow |-> [w1 EXCEPT !.pc = "compareAndRank",
                                  !.compareCalls = Append(@, [tickers |-> tickers])],
           tool |-> compareStart(NewTool("compareCompanies", [tickers |-> tickers]))]

\* The step screenStocks, up to the first await of the tool
ScreenStocksStep ==
  /\ workflow.pc = "created"
  /\ workflow' = [workflow EXCEPT !.pc = "screenStocks"]
  /\ LET context == screenStocksContext(workflow.criteria)
     IN tool' = screenBatch([NewTool("screenStocks", context)
                               EXCEPT !.tickers = tickersToScreen(context)])
  /\ UNCHANGED <<limiterVars, dcf, rebalance, db, store, cycle>>

\* A quote request of screenStocksTool settles
WorkflowQuoteSettles ==
  /\ workflow.pc = "screenStocks"
  /\ tool.pc = "fetching"
  /\ \E p \in 1..Len(tool.batch), outcome \in WorkflowQuoteOutcomes :
       /\ <<p, "quote">> \in tool.inflight
       /\ tool' = screenSettled(tool, p, outcome)
  /\ UNCHANGED <<limiterVars, dcf, rebalance, workflow, db, store, cycle>>

CompareAndRankStep ==
  /\ workflow.pc = "screenStocks"
  /\ tool.pc = "done"
  /\ workflow' = compareAndRank(workflow, tool).workflow
  /\ tool' = compareAndRank(workflow, tool).tool
  /\ UNCHANGED <<limiterVars, dcf, rebalance, db, store, cycle>>

\* A request of compareCompaniesTool settles
WorkflowCompareSettles ==
  /\ workflow.pc = "compareAndRank"
  /\ tool.pc = "fetching"
  /\ \E r \in tool.inflight :
       \E outcome \in (IF r[2] = "quote" THEN WorkflowQuoteOutcomes
                       ELSE WorkflowSummaryOutcomes) :
         tool' = compareSettled(tool, r[1], r[2], outcome)
  /\ UNCHANGED <<limiterVars, dcf, rebalance, workflow, db, store, cycle>>

\* await compareCompaniesTool.execute(...) resolves: the return of the step
CompareAndRankReturns ==
  /\ workflow.pc = "compareAndRank"
  /\ tool.pc = "done"
  /\ workflow' = [workflow EXCEPT !.pc = "synthesize",
                                  !.comparison = tool.output.comparison,
                                  !.summary = tool.output.summary]
  /\ UNCHANGED <<limiterVars, tool, dcf, rebalance, db, store, cycle>>

WorkflowNext ==
  \/ ScreenStocksStep
  \/ WorkflowQuoteSettles
  \/ CompareAndRankStep
  \/ WorkflowCompareSettles
  \/ CompareAndRankReturns

InitWorkflow ==
  /\ LimiterNotUsed
  /\ tool = NotCalled
  /\ dcf = NotCalled
  /\ rebalance = NotCalled
  /\ db = NotCalled
  /\ store = NotCalled
  /\ cycle = NotCalled
  /\ workflow \in {NewRun(criteria) : criteria \in WorkflowCriteria}

WorkflowSpec == InitWorkflow /\ [][WorkflowNext]_vars

\* C30: the workflow calls compareCompaniesTool only with 2 to 10 tickers, the
\* sizes the input schema of the tool admits; with no match the step skips
\* the call.
C30_CompareWithinSchema ==
  /\ \A i \in 1..Len(workflow.compareCalls) :
       /\ Len(workflow.compareCalls[i].tickers) >= 2
       /\ Len(workflow.compareCalls[i].tickers) <= 10
  /\ workflow.pc = "synthesize" /\ workflow.matches = <<>> => workflow.compareCalls = <<>>

\* ----------------------------- the review cycle and the portfolio store
\* The last states of the Rebalance Engine, TRADE_PLAN_BUILT to APPLIED or
\* REJECTED, and the portfolio store they write to.  A position is one share
\* at a price of 1.
MaxTrades == 2       \* orders of one trade plan
StartCash == 1       \* most uninvested cash of the portfolio under review
MaxPerSector == 1    \* holdings of one sector that maxSectorPct admits

Cycles == {1, 2}
ReviewTickers == {"H1", "H2", "N1"}
ReviewSector(ticker) == IF ticker = "H2" THEN "Energy" ELSE "Technology"

TradeOrder(action, ticker) == [ticker |-> ticker, action |-> action, shares |-> 1, price |-> 1]
TradeOrders == {TradeOrder(a, t) : a \in {"SELL", "BUY"}, t \in ReviewTickers}

\* One order on a portfolio p: a BUY creates the holding and a SELL removes
\* it, the cash moves by shares * price, the transaction is appended.
applyTrade(p, trade) ==
  IF trade.action = "SELL"
  THEN [p EXCEPT !.holdings = @ \ {trade.ticker},
                 !.cash = @ + trade.shares * trade.price,
                 !.transactions = Append(@, trade)]
  ELSE [p EXCEPT !.holdings = @ \cup {trade.ticker},
                 !.cash = @ - trade.shares * trade.price,
                 !.transactions = Append(@, trade)]

RECURSIVE applyTrades(_, _)
applyTrades(p, trades) ==
  IF trades = <<>> THEN p ELSE applyTrades(applyTrade(p, Head(trades)), Tail(trades))

\* A batch that fails after it has committed its first order.
batchFailedAfterFirst(p, trades) == IF trades = <<>> THEN p ELSE applyTrade(p, Head(trades))

\* applyTradeBatch(portfolioId, trades) -> ConflictError: none of the trades commits
batchFailed(p, trades) == p

\* applyTradeBatch(portfolioId, trades) -> ok: all of the trades commit
applyTradeBatch(p, trades) == [applyTrades(p, trades) EXCEPT !.applied = @ + 1]

\* saveSnapshot(Snapshot) -> ok
saveSnapshot(p) == [p EXCEPT !.snapshots = @ + 1]

\* A store that serializes nothing.
lockNotAsked(p) == TRUE

\* The advisory lock of the portfolio, the set of its holders, is free.
lockFree(p) == p.lock = {}

released(p, k) == [p EXCEPT !.lock = @ \ {k}]

\* The invariant of the data model that the portfolio after the trades would
\* break, or "none": the turnover cap and the sector cap.
violatedInvariant(p, trades) ==
  LET post == applyTrades(p, trades)
  IN IF Len(trades) > p.maxMonthlyTurnover THEN "maxMonthlyTurnover"
     ELSE IF \E t \in post.holdings :
               Cardinality({u \in post.holdings : ReviewSector(u) = ReviewSector(t)}) > MaxPerSector
          THEN "maxSectorPct"
          ELSE "none"

\* The trade plans that can be built from a loaded portfolio: sells of
\* holdings, then buys of stocks not held, paid from the proceeds of the sells
\* and the uninvested cash.
TradePlans(p) ==
  { l \in UNION { [1..n -> TradeOrders] : n \in 0..MaxTrades } :
      /\ \A i, j \in 1..Len(l) : l[i].ticker = l[j].ticker => i = j
      /\ \A i \in 1..Len(l) : (l[i].action = "SELL") = (l[i].ticker \in p.holdings)
      /\ \A i, j \in 1..Len(l) : l[i].action = "BUY" /\ l[j].action = "SELL" => j < i
      /\ applyTrades(p, l).cash >= 0 }

NewCycle == [state |-> "IDLE", loaded |-> NotCalled, plan |-> <<>>,
             violated |-> "none", failedIn |-> "none"]

\* LOADED: the cycle takes the lock of the portfolio and loads it
LoadPortfolio(k) ==
  /\ cycle[k].state = "IDLE"
  /\ lockFree(store)
  /\ store' = [store EXCEPT !.lock = {k}]
  /\ cycle' = [cycle EXCEPT ![k].state = "LOADED", ![k].loaded = store]
  /\ UNCHANGED <<limiterVars, tool, dcf, rebalance, workflow, db>>

\* RESCORED to TRADE_PLAN_BUILT: a plan is built from what was loaded
BuildTradePlan(k) ==
  /\ cycle[k].state = "LOADED"
  /\ \E plan \in TradePlans(cycle[k].loaded) :
       cycle' = [cycle EXCEPT ![k].state = "TRADE_PLAN_BUILT", ![k].plan = plan]
  /\ UNCHANGED <<limiterVars, tool, dcf, rebalance, workflow, db, store>>

\* VALIDATED: the portfolio after the trades is checked; a violation moves
\* the plan to REJECTED with the invariant named
Validate(k) ==
  /\ cycle[k].state = "TRADE_PLAN_BUILT"
  /\ LET v == violatedInvariant(cycle[k].loaded, cycle[k].plan)
     IN IF v = "none"
        THEN /\ cycle' = [cycle EXCEPT ![k].state = "VALIDATED"]
             /\ store' = store
        ELSE /\ cycle' = [cycle EXCEPT ![k].state = "REJECTED", ![k].violated = v]
             /\ store' = released(store, k)
  /\ UNCHANGED <<limiterVars, tool, dcf, rebalance, workflow, db>>

\* A failure during VALIDATED aborts the cycle
ValidateFails(k) ==
  /\ cycle[k].state = "TRADE_PLAN_BUILT"
  /\ cycle' = [cycle EXCEPT ![k].state = "ABORTED", ![k].failedIn = "VALIDATED"]
  /\ store' = released(store, k)
  /\ UNCHANGED <<limiterVars, tool, dcf, rebalance, workflow, db>>

\* APPLIED: the plan is handed to the store as one batch, then the snapshot
ApplyTradeBatch(k) ==
  /\ cycle[k].state = "VALIDATED"
  /\ cycle' = [cycle EXCEPT ![k].state = "APPLIED"]
  /\ store' = released(saveSnapshot(applyTradeBatch(store, cycle[k].plan)), k)
  /\ UNCHANGED <<limiterVars, tool, dcf, rebalance, workflow, db>>

\* A failure during APPLIED: the batch fails and the cycle is aborted
ApplyTradeBatchFails(k) ==
  /\ cycle[k].state = "VALIDATED"
  /\ cycle' = [cycle EXCEPT ![k].state = "ABORTED", ![k].failedIn = "APPLIED"]
  /\ store' = released(batchFailed(store, cycle[k].plan), k)
  /\ UNCHANGED <<limiterVars, tool, dcf, rebalance, workflow, db>>

ReviewNext ==
  \/ \E k \in Cycles : LoadPortfolio(k)
  \/ \E k \in Cycles : BuildTradePlan(k)
  \/ \E k \in Cycles : Validate(k)
  \/ \E k \in Cycles : ValidateFails(k)
  \/ \E k \in Cycles : ApplyTradeBatch(k)
  \/ \E k \in Cycles : ApplyTradeBatchFails(k)

\* A portfolio of two holdings of two sectors, and two review cycles of it
InitReview ==
  /\ LimiterNotUsed
  /\ tool = NotCalled
  /\ dcf = NotCalled
  /\ rebalance = NotCalled
  /\ workflow = NotCalled
  /\ db = NotCalled
  /\ \E cash \in 0..StartCash, turnover \in {1, MaxTrades} :
       store = [cash |-> cash, holdings |-> {"H1", "H2"}, transactions |-> <<>>,
                snapshots |-> 0, applied |-> 0, lock |-> {},
                maxMonthlyTurnover |-> turnover]
  /\ cycle = [k \in Cycles |-> NewCycle]

ReviewSpec == InitReview /\ [][ReviewNext]_vars

\* ------------------------------------------- claims of the review cycle
\* What is written for the portfolio
Written(p) == <<p.holdings, p.transactions, p.cash>>

\* C21: a cycle whose plan is rejected, or that fails during VALIDATED or
\* APPLIED, writes no holding, no transaction and no cash; what is written
\* changes only by one whole batch, of a plan that passed validation.
C21_AllOrNothing ==
  [][ /\ \A k \in Cycles :
           cycle'[k].state \in {"REJECTED", "ABORTED"} /\ cycle[k].state # cycle'[k].state
             => Written(store') = Written(store)
      /\ Written(store') # Written(store) =>
           \E k \in Cycles :
             /\ cycle[k].state = "VALIDATED"
             /\ cycle'[k].state = "APPLIED"
             /\ violatedInvariant(cycle[k].loaded, cycle[k].plan) = "none"
             /\ Written(store') = Written(applyTrades(store, cycle[k].plan)) ]_vars

C21_Witness ==
  /\ cycle[1].state = "ABORTED"
  /\ cycle[1].failedIn = "APPLIED"
  /\ Len(cycle[1].plan) = 2
  /\ cycle[2].state = "REJECTED"
  /\ cycle[2].violated # "none"
  /\ Written(store) = Written(cycle[1].loaded)

\* C22: the cycles of a portfolio are serialized: no two validated plans are
\* in flight together, no two cycles that loaded the same state of the
\* portfolio both apply, and the cash is never spent twice.
C22_Serialized ==
  /\ Cardinality({k \in Cycles : cycle[k].state = "VALIDATED"}) <= 1
  /\ \A j, k \in Cycles :
       j # k /\ cycle[j].state = "APPLIED" /\ cycle[k].state = "APPLIED"
         => cycle[j].loaded.applied # cycle[k].loaded.applied
  /\ store.cash >= 0

C22_Witness ==
  /\ cycle[1].state = "APPLIED"
  /\ cycle[2].state = "APPLIED"
  /\ cycle[1].plan # <<>>
  /\ cycle[2].plan # <<>>
  /\ cycle[2].loaded.applied = 1
  /\ store.applied = 2

====
